---- MODULE Spec2Model ----
(***************************************************************************)
(* Flash orchestration and serial monitoring of the sense360-flash serial  *)
(* services.  One behaviour follows one service instance (the exported     *)
(* singleton of one of the service classes) through connect, disconnect,   *)
(* flashFirmware, eraseFlash, restartMonitoring, the delayed               *)
(* monitor-restart timers and the monitor's read loop.  JavaScript runs    *)
(* one task at a time: an action is the code between two awaits.           *)
(***************************************************************************)
EXTENDS Integers, Sequences, FiniteSets, TLC

\* ------------------------------------------------------------------ bounds
MaxCalls == 2          \* flashFirmware / eraseFlash calls per behaviour
MaxChunks == 2         \* firmware images span at most this many 4096-byte chunks
MaxReads == 2          \* restartMonitoring() is not called with this many reads in flight
MaxRestarts == 1       \* restartMonitoring() calls waiting in their delay at once
MaxLogs == 3           \* logMessage() calls per behaviour of the log subscribers
MaxFragments == 3      \* pieces of device output in the byte stream the monitor reads
MaxRandom == 3         \* runs of random digits generateMockMacAddress may draw
MaxQueries == 2        \* queries of the device info during one connection

\* --------------------------------------------------------- program constants
Robust_chunkSize == 1024
Production_chunkSize == 4096
Serial_chunkSize == 4096
ESPWebTools_chunkSize == 4096
Official_chunkSize == 4096
ESPWebTools_eraseSteps == 6      \* eraseSteps.length in detailedEraseFlash
Official_sectors == 5            \* sectors.length in performFlashErase

Services == {"Robust", "Production", "Serial", "ESPWebTools", "Official", "ProductionESP"}

\* The services that have a development (mock) mode.
HasDevMode == {"Robust", "Production", "Serial"}

\* Firmware lengths: empty, one byte, exactly k chunks, k chunks and one byte.
FirmwareSizes == {c * Production_chunkSize + d : c \in 0..(MaxChunks - 1), d \in {0, 1}}

\* Messages of the errors the esptool loader rejects with.
LoaderErrors == {"Timeout waiting for packet header", "Invalid head of packet"}

\* The components that register a message handler with serialService.
Subscribers == {"Terminal", "SerialMonitor"}

VARIABLES
  svc,               \* which service class this instance is
  webSerial,         \* 'serial' in navigator (and secure context)
  isDevelopmentMode, \* isDevelopmentMode (SerialService: mockConnected)
  port,              \* this.port !== null
  portOpen,          \* the SerialPort is open (port.readable !== null)
  reader,            \* this.reader !== null
  writer,            \* this.writer !== null
  loader,            \* this.loader !== null
  monitor,           \* isMonitoring, the abort controller, reads in flight
  restartTimers,     \* pending setTimeout(() => startSerialMonitoring())
  restartPending,    \* restartMonitoring() calls waiting in their delay
  firmwareLen,       \* firmwareData.byteLength
  everConnected,     \* a connect() call has returned without throwing
  sessions,          \* the flashFirmware / eraseFlash calls made so far
  onMessage,         \* serialService.onMessage: whose handler it holds
  terminalMounted,   \* Terminal's mount effect has run
  isOpen,            \* SerialMonitor's prop isOpen
  monitorConnected,  \* SerialMonitor's prop isConnected
  registered,        \* subscribers that registered and did not unsubscribe
  since,             \* per subscriber: logMessage() calls before it registered
  received,          \* per subscriber: the messages its handler was called with
  logged,            \* logMessage() calls so far
  incoming,          \* the chunks reader.read() will still resolve with
  chunksRead,        \* the chunks reader.read() has resolved with
  textDecoder,       \* the state of the monitor loop's TextDecoder
  decoded,           \* all the text textDecoder.decode() has returned
  buffer,            \* the monitor loop's buffer: the incomplete last line
  deviceLog,         \* the messages the monitor loop has logged
  onConnectionChange, \* serialService.onConnectionChange holds the hook's handler
  deviceInfo,        \* the DeviceInfo the last successful connect() returned
  queried,           \* the DeviceInfos later queries of this connection yielded
  deviceAcks,        \* the device answers the sequence that enters its bootloader
  hooks,             \* per component: the state of its useDeviceConnection() call
  robustSerialService, \* the instance FlashingProcess calls: port, isDevelopmentMode
  flashingState,     \* FlashingProcess's flashingState
  handleFlashAt      \* where FlashingProcess.handleFlash is waiting

vars == <<svc, webSerial, isDevelopmentMode, port, portOpen, reader, writer, loader,
          monitor, restartTimers, restartPending, firmwareLen, everConnected, sessions,
          onMessage, terminalMounted, isOpen, monitorConnected, registered, since,
          received, logged, incoming, chunksRead, textDecoder, decoded, buffer,
          deviceLog, onConnectionChange, deviceInfo, queried, deviceAcks, hooks,
          robustSerialService, flashingState, handleFlashAt>>

info == <<onConnectionChange, deviceInfo, queried>>
page == <<hooks, robustSerialService, flashingState, handleFlashAt>>
rx == <<incoming, chunksRead, textDecoder, decoded, buffer, deviceLog>>
logs == <<onMessage, terminalMounted, isOpen, monitorConnected, registered, since,
          received, logged>>
static == <<svc, webSerial, firmwareLen, deviceAcks, page, logs, rx, info>>
env == <<static, everConnected>>
handle == <<port, portOpen, reader, writer, loader>>

\* ------------------------------------------------------------- arithmetic
\* Math.ceil(a / b) for a >= 0, b > 0.
Ceil(a, b) == (a + b - 1) \div b

\* Math.round(n / d) for n >= 0, d > 0: halves round up.
Round(n, d) == (2 * n + d) \div (2 * d)

Min(a, b) == IF a < b THEN a ELSE b

\* A progress value is a rational <<numerator, denominator>>: two services
\* report 30 + (written / totalSize) * 60 unrounded.
P(n) == <<n, 1>>
Leq(a, b) == a[1] * b[2] <= b[1] * a[2]
IsHundred(a) == a[1] = 100 * a[2]
\* base + (n / d) * scale, unrounded.
Scaled(base, n, d, scale) == <<base * d + n * scale, d>>

\* `${error}` of an Error with message m.
ErrorToString(m) == "Error: " \o m

\* ------------------------------------------------------------ FlashingState
Update(stage, progress, isFlashing, message) ==
  [stage |-> stage, progress |-> progress, isFlashing |-> isFlashing, message |-> message]

\* A flashFirmware / eraseFlash call.  steps: the protocol steps issued, in
\* order; writes: the byte ranges of the chunk writes that completed;
\* failedStep: index in steps of the step that rejected (0: none);
\* thrown: message of the error the call rejected with; busyAtCall: another
\* call was between its first and terminal update when this one was made.
NewSession(op, busy) ==
  [op |-> op, pc |-> "start", dev |-> FALSE, i |-> 0, written |-> 0,
   updates |-> <<>>, steps |-> <<>>, writes |-> <<>>, failedStep |-> 0,
   verified |-> FALSE, result |-> "running", thrown |-> "", busyAtCall |-> busy,
   connectedAtCall |-> everConnected, cut |-> FALSE]

IsTerminal(u) ==
  \/ u.stage = "error"
  \/ u.stage = "complete" /\ IsHundred(u.progress)

\* disconnect() is called while the call s is in stage writing: cut keeps
\* that it was.
Disconnected(s) ==
  IF /\ s.op = "flash" /\ s.result = "running" /\ s.updates # <<>>
     /\ s.updates[Len(s.updates)].stage = "writing"
  THEN [s EXCEPT !.cut = TRUE]
  ELSE s

\* Between its first progress update and its terminal update.
Active(s) ==
  /\ s.updates # <<>>
  /\ ~ IsTerminal(s.updates[Len(s.updates)])
  /\ s.result = "running"

AnyActive == \E k \in DOMAIN sessions : Active(sessions[k])

\* ---------------------------------------------------------------- monitor
NoMonitor == [isMonitoring |-> FALSE, ctrl |-> "none", reads |-> 0,
              monitoringReader |-> FALSE, locked |-> FALSE]

\* startSerialMonitoring() of each service, with the synchronous head of the
\* read loop it starts: a loop that reaches reader.read() is a read in flight.
\* dev, p, r: isDevelopmentMode, port !== null, reader !== null at the call.
StartMonitoring(m, dev, p, r) ==
  CASE svc \in {"Robust", "Serial"} ->
         IF m.isMonitoring THEN m
         ELSE LET m1 == [m EXCEPT !.isMonitoring = TRUE, !.ctrl = "live"]
              IN IF dev \/ ~p \/ ~r THEN m1
                 ELSE [m1 EXCEPT !.reads = @ + 1]
    [] svc \in {"ESPWebTools", "Official"} ->
         IF m.isMonitoring \/ ~p \/ ~r THEN m
         ELSE [m EXCEPT !.isMonitoring = TRUE, !.ctrl = "live", !.reads = @ + 1]
    [] svc = "Production" ->
         IF m.isMonitoring THEN m
         ELSE LET m1 == [m EXCEPT !.isMonitoring = TRUE]
              IN IF dev \/ ~p \/ m.locked THEN m1
                 ELSE [m1 EXCEPT !.monitoringReader = TRUE, !.locked = TRUE,
                                 !.reads = @ + 1]
    [] svc = "ProductionESP" ->
         \* port.open() on the open port rejects: the loop never reads.
         IF ~p \/ m.isMonitoring THEN m
         ELSE [m EXCEPT !.isMonitoring = TRUE, !.ctrl = "live"]

startSerialMonitoring(m) == StartMonitoring(m, isDevelopmentMode, port, reader)

\* stopSerialMonitoring() of each service.
stopSerialMonitoring(m) ==
  IF ~m.isMonitoring THEN m
  ELSE CASE svc \in {"Robust", "ProductionESP"} ->
              [m EXCEPT !.isMonitoring = FALSE,
                        !.ctrl = IF @ = "none" THEN "none" ELSE "aborted"]
         [] svc \in {"Serial", "ESPWebTools", "Official"} ->
              [m EXCEPT !.isMonitoring = FALSE, !.ctrl = "none"]
         [] svc = "Production" ->
              IF m.monitoringReader
              THEN [m EXCEPT !.isMonitoring = FALSE, !.monitoringReader = FALSE,
                             !.reads = 0]
              ELSE [m EXCEPT !.isMonitoring = FALSE]

\* The condition of the monitor's read loop.
LoopContinues(m) ==
  CASE svc \in {"Robust", "ProductionESP"} -> m.isMonitoring /\ m.ctrl # "aborted"
    [] svc = "Serial" -> m.isMonitoring
    [] svc \in {"ESPWebTools", "Official"} -> m.isMonitoring /\ m.ctrl = "live"
    [] svc = "Production" -> m.isMonitoring /\ m.monitoringReader

\* A read of the monitor loop resolves with device output: the lines are
\* logged and the loop condition is evaluated again.
MonitorRead ==
  /\ monitor.reads > 0
  /\ monitor' = IF LoopContinues(monitor) THEN monitor
                ELSE [monitor EXCEPT !.reads = @ - 1]
  /\ monitor' # monitor
  /\ UNCHANGED <<env, isDevelopmentMode, handle, restartTimers, restartPending,
                 sessions>>

\* isConnected() of each service.
isConnected ==
  CASE svc = "Robust" -> port \/ isDevelopmentMode
    [] svc = "Production" -> isDevelopmentMode \/ (loader /\ port)
    [] svc = "Serial" -> isDevelopmentMode \/ (port /\ portOpen)
    [] svc \in {"ESPWebTools", "Official"} -> port
    [] svc = "ProductionESP" -> loader /\ port

\* --------------------------------------------------- connect / disconnect
\* RobustSerialService.connect: requestPort may reject; this.port is
\* assigned before port.open(), which rejects on a port that is open.
Robust_connect ==
  /\ svc = "Robust"
  /\ \/ /\ isDevelopmentMode
        /\ monitor' = startSerialMonitoring(monitor)
        /\ UNCHANGED handle
        /\ everConnected' = TRUE
     \/ /\ ~isDevelopmentMode /\ ~port          \* requestPort rejects
        /\ UNCHANGED <<handle, monitor>>
        /\ UNCHANGED everConnected
     \/ /\ ~isDevelopmentMode                   \* port.open rejects
        /\ port' = TRUE
        /\ UNCHANGED <<portOpen, reader, writer, loader, monitor>>
        /\ UNCHANGED everConnected
     \/ /\ ~isDevelopmentMode /\ ~portOpen
        /\ port' = TRUE /\ portOpen' = TRUE /\ writer' = TRUE /\ reader' = TRUE
        /\ monitor' = StartMonitoring(monitor, FALSE, TRUE, TRUE)
        /\ UNCHANGED loader
        /\ everConnected' = TRUE
  /\ UNCHANGED <<static, isDevelopmentMode, restartTimers, restartPending, sessions>>

\* RobustSerialService.disconnect: reader.cancel() ends every pending read.
Robust_disconnect ==
  /\ svc = "Robust"
  /\ monitor' = [stopSerialMonitoring(monitor) EXCEPT !.reads = IF reader THEN 0 ELSE @]
  /\ writer' = FALSE /\ reader' = FALSE /\ port' = FALSE /\ portOpen' = FALSE
  /\ sessions' = [k \in DOMAIN sessions |-> Disconnected(sessions[k])]
  /\ UNCHANGED <<env, isDevelopmentMode, loader, restartTimers, restartPending>>

\* SerialService.connect: without Web Serial the mock connection is used; a
\* permission error falls back to it; other errors are rethrown.
Serial_connectPaths == {"mock", "requestPortRejects", "fallback", "openRejects", "opened"}

\* The paths of SerialService.connect that return a DeviceInfo.
Serial_connectReturns == {"mock", "fallback", "opened"}

\* What one path through SerialService.connect does to the service.
Serial_connectPath(path) ==
  /\ svc = "Serial"
  /\ \/ /\ path = "mock"
        /\ ~webSerial
        /\ isDevelopmentMode' = TRUE
        /\ UNCHANGED <<handle, monitor>>
        /\ everConnected' = TRUE
     \/ /\ path = "requestPortRejects"          \* requestPort rejects, rethrown
        /\ webSerial /\ ~port
        /\ UNCHANGED <<handle, monitor, isDevelopmentMode>>
        /\ UNCHANGED everConnected
     \/ /\ path = "fallback"                    \* NotAllowedError: mock fallback
        /\ webSerial /\ ~port
        /\ isDevelopmentMode' = TRUE
        /\ UNCHANGED <<handle, monitor>>
        /\ everConnected' = TRUE
     \/ /\ path = "openRejects"                 \* port.open rejects, rethrown
        /\ webSerial
        /\ port' = TRUE
        /\ UNCHANGED <<portOpen, reader, writer, loader, monitor, isDevelopmentMode>>
        /\ UNCHANGED everConnected
     \/ /\ path = "opened"
        /\ webSerial /\ ~portOpen
        /\ port' = TRUE /\ portOpen' = TRUE /\ writer' = TRUE /\ reader' = TRUE
        /\ monitor' = StartMonitoring(monitor, isDevelopmentMode, TRUE, TRUE)
        /\ UNCHANGED <<loader, isDevelopmentMode>>
        /\ everConnected' = TRUE

Serial_connect ==
  /\ \E path \in Serial_connectPaths : Serial_connectPath(path)
  /\ UNCHANGED <<static, restartTimers, restartPending, sessions>>

\* SerialService.disconnect: also resets mockConnected.
Serial_closing ==
  /\ svc = "Serial"
  /\ monitor' = [stopSerialMonitoring(monitor) EXCEPT !.reads = IF reader THEN 0 ELSE @]
  /\ writer' = FALSE /\ reader' = FALSE /\ port' = FALSE /\ portOpen' = FALSE
  /\ isDevelopmentMode' = FALSE

Serial_disconnect ==
  /\ Serial_closing
  /\ UNCHANGED <<env, loader, restartTimers, restartPending, sessions>>

\* ESPWebToolsService.connect and ESPWebToolsOfficialService.connect.
WebTools_connect ==
  /\ svc \in {"ESPWebTools", "Official"}
  /\ \/ /\ ~port                                \* requestPort rejects
        /\ UNCHANGED <<handle, monitor>>
        /\ UNCHANGED everConnected
     \/ /\ port' = TRUE                         \* port.open rejects
        /\ UNCHANGED <<portOpen, reader, writer, loader, monitor>>
        /\ UNCHANGED everConnected
     \/ /\ ~portOpen
        /\ port' = TRUE /\ portOpen' = TRUE /\ writer' = TRUE /\ reader' = TRUE
        /\ monitor' = StartMonitoring(monitor, FALSE, TRUE, TRUE)
        /\ UNCHANGED loader
        /\ everConnected' = TRUE
  /\ UNCHANGED <<static, isDevelopmentMode, restartTimers, restartPending, sessions>>

\* ESPWebToolsService.disconnect and ESPWebToolsOfficialService.disconnect.
WebTools_disconnect ==
  /\ svc \in {"ESPWebTools", "Official"}
  /\ monitor' = [stopSerialMonitoring(monitor) EXCEPT !.reads = IF reader THEN 0 ELSE @]
  /\ writer' = FALSE /\ reader' = FALSE /\ port' = FALSE /\ portOpen' = FALSE
  /\ UNCHANGED <<env, isDevelopmentMode, loader, restartTimers, restartPending,
                 sessions>>

\* ProductionSerialService.connect with loadESPTool: a failed script load
\* switches the service to development mode and the ESPLoader constructor
\* then throws; this.loader is assigned before loader.connect().
Production_connect ==
  /\ svc = "Production"
  /\ \/ /\ isDevelopmentMode
        /\ monitor' = startSerialMonitoring(monitor)
        /\ UNCHANGED <<handle, isDevelopmentMode>>
        /\ everConnected' = TRUE
     \/ /\ ~isDevelopmentMode /\ ~port          \* requestPort rejects
        /\ UNCHANGED <<handle, monitor, isDevelopmentMode>>
        /\ UNCHANGED everConnected
     \/ /\ ~isDevelopmentMode /\ ~loader        \* the esptool script fails to load
        /\ port' = TRUE /\ isDevelopmentMode' = TRUE
        /\ UNCHANGED <<portOpen, reader, writer, loader, monitor>>
        /\ UNCHANGED everConnected
     \/ /\ ~isDevelopmentMode                   \* loader.connect rejects
        /\ port' = TRUE /\ loader' = TRUE
        /\ UNCHANGED <<portOpen, reader, writer, monitor, isDevelopmentMode>>
        /\ UNCHANGED everConnected
     \/ /\ ~isDevelopmentMode /\ ~portOpen
        /\ port' = TRUE /\ loader' = TRUE /\ portOpen' = TRUE
        /\ monitor' = StartMonitoring(monitor, FALSE, TRUE, FALSE)
        /\ UNCHANGED <<reader, writer, isDevelopmentMode>>
        /\ everConnected' = TRUE
  /\ UNCHANGED <<static, restartTimers, restartPending, sessions>>

\* ProductionSerialService.disconnect: closing the port frees its streams.
Production_disconnect ==
  /\ svc = "Production"
  /\ monitor' = [stopSerialMonitoring(monitor) EXCEPT !.reads = 0, !.locked = FALSE]
  /\ loader' = FALSE /\ port' = FALSE /\ portOpen' = FALSE
  /\ sessions' = [k \in DOMAIN sessions |-> Disconnected(sessions[k])]
  /\ UNCHANGED <<env, isDevelopmentMode, reader, writer, restartTimers,
                 restartPending>>

\* ProductionESPService.connect: this.port and this.loader are assigned
\* before loader.connect().
ProductionESP_connect ==
  /\ svc = "ProductionESP"
  /\ \/ /\ ~port                                \* requestPort rejects
        /\ UNCHANGED <<handle, monitor>>
        /\ UNCHANGED everConnected
     \/ /\ port' = TRUE /\ loader' = TRUE       \* loader.connect rejects
        /\ UNCHANGED <<portOpen, reader, writer, monitor>>
        /\ UNCHANGED everConnected
     \/ /\ ~portOpen
        /\ port' = TRUE /\ loader' = TRUE /\ portOpen' = TRUE
        /\ monitor' = StartMonitoring(monitor, FALSE, TRUE, FALSE)
        /\ UNCHANGED <<reader, writer>>
        /\ everConnected' = TRUE
  /\ UNCHANGED <<static, isDevelopmentMode, restartTimers, restartPending, sessions>>

\* ProductionESPService.disconnect.
ProductionESP_disconnect ==
  /\ svc = "ProductionESP"
  /\ monitor' = stopSerialMonitoring(monitor)
  /\ loader' = FALSE /\ port' = FALSE /\ portOpen' = FALSE
  /\ UNCHANGED <<env, isDevelopmentMode, reader, writer, restartTimers,
                 restartPending, sessions>>

\* ------------------------------------------------- restarting the monitor
\* restartMonitoring(): stop, then wait out the delay.
restartMonitoring ==
  /\ monitor.reads < MaxReads /\ restartPending < MaxRestarts
  /\ monitor' = stopSerialMonitoring(monitor)
  /\ restartPending' = restartPending + 1
  /\ UNCHANGED <<env, isDevelopmentMode, handle, restartTimers, sessions>>

\* restartMonitoring() after its delay: start.
restartMonitoring_resume ==
  /\ restartPending > 0
  /\ restartPending' = restartPending - 1
  /\ monitor' = startSerialMonitoring(monitor)
  /\ UNCHANGED <<env, isDevelopmentMode, handle, restartTimers, sessions>>

\* A timer set by a successful flashFirmware fires: startSerialMonitoring().
RestartTimer ==
  /\ restartTimers > 0
  /\ restartTimers' = restartTimers - 1
  /\ monitor' = startSerialMonitoring(monitor)
  /\ UNCHANGED <<env, isDevelopmentMode, handle, restartPending, sessions>>

\* ------------------------------------------------------- session plumbing
\* The call continues at pc after emitting the updates us.
Go(s, pc, us) == [s EXCEPT !.pc = pc, !.updates = @ \o us]

\* A protocol step is issued (awaited): name, and byte offset for a write.
Step(name, at) == [name |-> name, at |-> at]
Issue(s, name, at) == [s EXCEPT !.steps = Append(@, Step(name, at))]

\* The call returns normally after emitting the updates us.
Return(s, us) == [s EXCEPT !.pc = "done", !.result = "ok", !.updates = @ \o us]

\* The call rejects with an Error of message m after emitting the updates us.
Reject(s, m, us) ==
  [s EXCEPT !.pc = "done", !.result = "failed", !.thrown = m, !.updates = @ \o us]

\* The step awaited last rejected.
StepFailed(s) == [s EXCEPT !.failedStep = Len(s.steps)]

\* A chunk write over [from, to) completed.
Wrote(s, from, to) == [s EXCEPT !.writes = Append(@, <<from, to>>)]

At(k, pc) == k \in DOMAIN sessions /\ sessions[k].pc = pc
Set(k, s) == sessions' = [sessions EXCEPT ![k] = s]

CanCall == Len(sessions) < MaxCalls

\* --------------------------------------------------- RobustSerialService
\* The update of flashFirmware's catch block.
Robust_flashError(m) ==
  Update("error", P(0), FALSE, "Flash failed: " \o ErrorToString(m))

\* The update of eraseFlash's catch block.
Robust_eraseError(m) ==
  Update("error", P(0), FALSE, "Erase failed: " \o ErrorToString(m))

\* The last update of a successful flashFirmware (both modes).
Robust_flashComplete ==
  Update("complete", P(100), FALSE, "Firmware flashed successfully!")

\* The last update of a successful eraseFlash.
Robust_eraseComplete ==
  Update("complete", P(100), FALSE, "Flash erased successfully!")

Robust_totalChunks == Ceil(firmwareLen, Robust_chunkSize)

\* The update at the head of iteration i of writeFirmwareToFlash's loop.
Robust_writeUpdate(i) ==
  Update("writing", P(30 + Round(i * 55, Robust_totalChunks)), TRUE, "Writing firmware: ")

\* A steps table whose fourth row repeats stage writing.
Robust_devStepsWithoutVerifying ==
  << [progress |-> 5, stage |-> "connecting", message |-> "Entering bootloader mode..."],
     [progress |-> 15, stage |-> "erasing", message |-> "Erasing flash memory..."],
     [progress |-> 30, stage |-> "writing", message |-> "Writing firmware data..."],
     [progress |-> 85, stage |-> "writing", message |-> "Verifying flash..."],
     [progress |-> 95, stage |-> "complete", message |-> "Resetting device..."] >>

\* The steps table of flashFirmwareDevelopmentMode.
Robust_devSteps ==
  << [progress |-> 5, stage |-> "connecting", message |-> "Entering bootloader mode..."],
     [progress |-> 15, stage |-> "erasing", message |-> "Erasing flash memory..."],
     [progress |-> 30, stage |-> "writing", message |-> "Writing firmware data..."],
     [progress |-> 85, stage |-> "verifying", message |-> "Verifying flash..."],
     [progress |-> 95, stage |-> "complete", message |-> "Resetting device..."] >>

\* An update of the steps table that reports no flash in progress at any row.
Robust_devUpdateIdle(n) ==
  LET step == Robust_devSteps[n]
  IN Update(step.stage, P(step.progress), FALSE, step.message)

Robust_devUpdate(n) ==
  LET step == Robust_devSteps[n]
  IN Update(step.stage, P(step.progress), step.stage # "complete", step.message)

\* flashFirmware up to its first await.
Robust_flashFirmware ==
  /\ svc = "Robust" /\ CanCall
  /\ monitor' = stopSerialMonitoring(monitor)
  /\ LET s == NewSession("flash", AnyActive)
     IN \/ /\ isDevelopmentMode
           /\ sessions' = Append(sessions, [s EXCEPT !.pc = "devStep", !.dev = TRUE, !.i = 1])
        \/ /\ ~isDevelopmentMode /\ ~port
           /\ sessions' = Append(sessions,
                 Reject(s, "Device not connected", <<Robust_flashError("Device not connected")>>))
        \/ /\ ~isDevelopmentMode /\ port
           /\ sessions' = Append(sessions,
                 Issue(Go(s, "enterBootloader",
                          <<Update("connecting", P(5), TRUE, "Entering bootloader mode...")>>),
                       "enterBootloader", 0))
  /\ UNCHANGED <<env, isDevelopmentMode, handle, restartTimers, restartPending>>

\* flashFirmware resumes after enterBootloaderMode, eraseFlashRegion, a chunk
\* of writeFirmwareToFlash, the verification delay.
Robust_flashResume(k) ==
  /\ svc = "Robust" /\ sessions[k].op = "flash"
  /\ LET s == sessions[k]
         verifying == Update("verifying", P(85), TRUE, "Verifying flash...")
     IN \/ /\ At(k, "enterBootloader")
           /\ Set(k, Issue(Go(s, "erase",
                              <<Update("erasing", P(15), TRUE, "Erasing flash memory...")>>),
                           "erase", 0))
        \/ /\ At(k, "erase")
           /\ LET w == Update("writing", P(30), TRUE, "Writing firmware...")
              IN IF Robust_totalChunks = 0
                 THEN Set(k, Issue(Go(s, "verify", <<w, verifying>>), "verify", 0))
                 ELSE Set(k, Issue(Go(s, "write", <<w, Robust_writeUpdate(0)>>), "write", 0))
        \/ /\ At(k, "write")
           /\ IF s.i + 1 < Robust_totalChunks
              THEN Set(k, Issue(Go([s EXCEPT !.i = @ + 1], "write",
                                   <<Robust_writeUpdate(s.i + 1)>>),
                                "write", (s.i + 1) * Robust_chunkSize))
              ELSE Set(k, Issue(Go(s, "verify", <<verifying>>), "verify", 0))
        \/ /\ At(k, "verify")
           /\ Set(k, Issue(Go([s EXCEPT !.verified = TRUE], "reset",
                              <<Update("complete", P(95), TRUE, "Resetting device...")>>),
                           "reset", 0))
  /\ UNCHANGED <<env, isDevelopmentMode, handle, monitor, restartTimers, restartPending>>

\* flashFirmware resumes after resetDevice: the final update, the restart
\* timer (3000 ms), return.
Robust_flashFinish(k) ==
  /\ svc = "Robust" /\ At(k, "reset") /\ sessions[k].op = "flash"
  /\ Set(k, Return(sessions[k], <<Robust_flashComplete>>))
  /\ restartTimers' = restartTimers + 1
  /\ UNCHANGED <<env, isDevelopmentMode, handle, monitor, restartPending>>

\* flashFirmwareDevelopmentMode: the delay before step i of the table ends.
Robust_flashDevStep(k) ==
  /\ svc = "Robust" /\ At(k, "devStep")
  /\ LET s == sessions[k]
     IN \/ /\ s.i < 5 /\ s.i # 3
           /\ Set(k, Go([s EXCEPT !.i = @ + 1], "devStep", <<Robust_devUpdate(s.i)>>))
           /\ UNCHANGED restartTimers
        \/ /\ s.i = 3
           /\ Set(k, Go([s EXCEPT !.written = 30], "devWrite", <<Robust_devUpdate(s.i)>>))
           /\ UNCHANGED restartTimers
        \/ /\ s.i = 5                   \* last step, then the final update
           /\ Set(k, Return([s EXCEPT !.verified = TRUE],
                            <<Robust_devUpdate(s.i), Robust_flashComplete>>))
           /\ restartTimers' = restartTimers + 1
  /\ UNCHANGED <<env, isDevelopmentMode, handle, monitor, restartPending>>

\* flashFirmwareDevelopmentMode: one round of the simulated writing loop
\* (for i = 30; i < 85; i += 10); s.written holds i.
Robust_flashDevWrite(k) ==
  /\ svc = "Robust" /\ At(k, "devWrite")
  /\ LET s == sessions[k]
         u == Update("writing", P(s.written), TRUE, "Writing firmware: ")
     IN IF s.written + 10 < 85
        THEN Set(k, Go([s EXCEPT !.written = @ + 10], "devWrite", <<u>>))
        ELSE Set(k, Go([s EXCEPT !.written = 0, !.i = 4], "devStep", <<u>>))
  /\ UNCHANGED <<env, isDevelopmentMode, handle, monitor, restartTimers, restartPending>>

\* eraseFlash up to its first await.
Robust_eraseFlash ==
  /\ svc = "Robust" /\ CanCall
  /\ monitor' = stopSerialMonitoring(monitor)
  /\ LET s == Go(NewSession("erase", AnyActive), "start",
                 <<Update("erasing", P(10), TRUE, "Erasing flash memory...")>>)
     IN \/ /\ isDevelopmentMode
           /\ sessions' = Append(sessions, [s EXCEPT !.pc = "devErase", !.dev = TRUE])
        \/ /\ ~isDevelopmentMode /\ ~port
           /\ sessions' = Append(sessions,
                 Reject(s, "Device not connected", <<Robust_eraseError("Device not connected")>>))
        \/ /\ ~isDevelopmentMode /\ port
           /\ sessions' = Append(sessions, Issue(Go(s, "enterBootloader", <<>>),
                                                 "enterBootloader", 0))
  /\ UNCHANGED <<env, isDevelopmentMode, handle, restartTimers, restartPending>>

\* eraseFlash resumes after enterBootloaderMode, after eraseFlashRegion, or
\* after the development-mode delay.
Robust_eraseResume(k) ==
  /\ svc = "Robust" /\ sessions[k].op = "erase"
  /\ LET s == sessions[k]
     IN \/ /\ At(k, "enterBootloader")
           /\ Set(k, Issue(Go(s, "erase", <<>>), "erase", 0))
        \/ /\ At(k, "erase")
           /\ Set(k, Return(s, <<Robust_eraseComplete>>))
        \/ /\ At(k, "devErase")
           /\ Set(k, Return(s, <<Robust_eraseComplete>>))
  /\ UNCHANGED <<env, isDevelopmentMode, handle, monitor, restartTimers, restartPending>>

\* ------------------------------------------------ ProductionSerialService
\* The update of flashFirmware's catch block.
Production_flashError(m) ==
  Update("error", P(0), FALSE, "Flash failed: " \o ErrorToString(m))

\* The update of eraseFlash's catch block.
Production_eraseError(m) ==
  Update("error", P(0), FALSE, "Erase failed: " \o ErrorToString(m))

\* The update before loader.hardReset: complete, but progress 95 and still
\* flashing.
Production_resetting ==
  Update("complete", P(95), TRUE, "Resetting device...")

\* A final update that leaves isFlashing set.
Production_flashCompleteStillFlashing ==
  Update("complete", P(100), TRUE, "Firmware flashed successfully!")

\* The last update of a successful flashFirmware (both modes).
Production_flashComplete ==
  Update("complete", P(100), FALSE, "Firmware flashed successfully!")

\* A chunk count that leaves out the partial last chunk.
Production_totalChunksRoundedDown == firmwareLen \div Production_chunkSize

Production_totalChunks == Ceil(firmwareLen, Production_chunkSize)

\* start and end of chunk i of flashFirmware's chunk loop.
Production_chunkStart(i) == i * Production_chunkSize
Production_chunkEndUnclamped(i) == Production_chunkStart(i) + Production_chunkSize
Production_chunkEnd(i) == Min(Production_chunkStart(i) + Production_chunkSize, firmwareLen)

\* The update after chunk i was written.
Production_writeUpdate(i) ==
  Update("writing", P(30 + Round(i * 50, Production_totalChunks)), TRUE, "Writing firmware: ")

\* The steps table of flashFirmwareDevelopmentMode.
Production_devSteps ==
  << [progress |-> 5, stage |-> "connecting", message |-> "Entering bootloader mode..."],
     [progress |-> 15, stage |-> "erasing", message |-> "Erasing flash memory..."],
     [progress |-> 30, stage |-> "writing", message |-> "Writing firmware data..."],
     [progress |-> 85, stage |-> "verifying", message |-> "Verifying flash..."],
     [progress |-> 95, stage |-> "complete", message |-> "Resetting device..."] >>

Production_devUpdate(n) ==
  LET step == Production_devSteps[n]
  IN Update(step.stage, P(step.progress), TRUE, step.message)

\* flashFirmware up to its first await.
Production_flashFirmware ==
  /\ svc = "Production" /\ CanCall
  /\ monitor' = stopSerialMonitoring(monitor)
  /\ LET s == NewSession("flash", AnyActive)
     IN \/ /\ isDevelopmentMode
           /\ sessions' = Append(sessions, [s EXCEPT !.pc = "devStep", !.dev = TRUE, !.i = 1])
        \/ /\ ~isDevelopmentMode /\ ~loader
           /\ sessions' = Append(sessions,
                 Reject(s, "Device not connected",
                        <<Production_flashError("Device not connected")>>))
        \/ /\ ~isDevelopmentMode /\ loader
           /\ sessions' = Append(sessions,
                 Issue(Go(s, "enterBootloader",
                          <<Update("connecting", P(5), TRUE, "Preparing device for flashing...")>>),
                       "enterBootloader", 0))
  /\ UNCHANGED <<env, isDevelopmentMode, handle, restartTimers, restartPending>>

\* The message of the TypeError thrown by this.loader.method() when
\* disconnect() has set this.loader to null.
NullLoaderError(method) == "Cannot read properties of null (reading '" \o method \o "')"

TypeErrorToString(m) == "TypeError: " \o m

\* flashFirmware emits the updates us and calls this.loader.method(): the call
\* is awaited at pc, or, this.loader being null, the catch block is entered.
Production_call(s, pc, us, method, at) ==
  IF loader
  THEN Issue(Go(s, pc, us), pc, at)
  ELSE Reject(s, NullLoaderError(method),
              us \o <<Update("error", P(0), FALSE,
                             "Flash failed: " \o TypeErrorToString(NullLoaderError(method)))>>)

\* The chunk loop of flashFirmware after writeFlash of chunk s.i resolved:
\* the progress update, then the next writeFlash or the verification delay.
Production_afterWrite(s) ==
  LET w == Wrote(s, Production_chunkStart(s.i), Production_chunkEnd(s.i))
  IN IF s.i + 1 < Production_totalChunks
     THEN Production_call([w EXCEPT !.i = @ + 1], "write", <<Production_writeUpdate(s.i)>>,
                          "writeFlash", Production_chunkStart(s.i + 1))
     ELSE Issue(Go(w, "verify", <<Production_writeUpdate(s.i),
                                  Update("verifying", P(85), TRUE, "Verifying flash...")>>),
                "verify", 0)

\* flashFirmware resumes after loader.enterBootloader, loader.eraseRegion,
\* loader.writeFlash of a chunk, or the verification delay resolved.
Production_flashResume(k) ==
  /\ svc = "Production" /\ sessions[k].op = "flash"
  /\ LET s == sessions[k]
     IN \/ /\ At(k, "enterBootloader")
           /\ Set(k, Production_call(s, "erase",
                                     <<Update("erasing", P(15), TRUE, "Erasing flash memory...")>>,
                                     "eraseRegion", 0))
        \/ /\ At(k, "erase")
           /\ LET w == Update("writing", P(30), TRUE, "Writing firmware data...")
              IN IF Production_totalChunks = 0
                 THEN Set(k, Issue(Go(s, "verify",
                                      <<w, Update("verifying", P(85), TRUE, "Verifying flash...")>>),
                                   "verify", 0))
                 ELSE Set(k, Production_call(s, "write", <<w>>, "writeFlash",
                                             Production_chunkStart(0)))
        \/ /\ At(k, "write")
           /\ Set(k, Production_afterWrite(s))
        \/ /\ At(k, "verify")
           /\ Set(k, Production_call([s EXCEPT !.verified = TRUE], "reset",
                                     <<Production_resetting>>, "hardReset", 0))
  /\ UNCHANGED <<env, isDevelopmentMode, handle, monitor, restartTimers, restartPending>>

\* flashFirmware resumes after loader.hardReset resolved: the final update,
\* the restart timer (3000 ms), return.
Production_flashFinish(k) ==
  /\ svc = "Production" /\ At(k, "reset") /\ sessions[k].op = "flash"
  /\ Set(k, Return(sessions[k], <<Production_flashComplete>>))
  /\ restartTimers' = restartTimers + 1
  /\ UNCHANGED <<env, isDevelopmentMode, handle, monitor, restartPending>>

\* A flashFirmware that would issue the rejected loader call again instead
\* of leaving through its catch block.
Production_retryOnFlashError(s, m) ==
  LET failed == s.steps[Len(s.steps)]
  IN Issue(StepFailed(s), failed.name, failed.at)

\* What flashFirmware does when the awaited loader call rejects with m: the
\* catch block emits the error update and rethrows.
Production_onFlashError(s, m) == Reject(StepFailed(s), m, <<Production_flashError(m)>>)

\* An awaited loader call of flashFirmware rejects.
Production_flashFail(k) ==
  /\ svc = "Production" /\ sessions[k].op = "flash"
  /\ sessions[k].pc \in {"enterBootloader", "erase", "write", "reset"}
  /\ \E m \in LoaderErrors : Set(k, Production_onFlashError(sessions[k], m))
  /\ UNCHANGED <<env, isDevelopmentMode, handle, monitor, restartTimers, restartPending>>

\* flashFirmwareDevelopmentMode: the delay before step i of the table ends;
\* the simulated writing loop follows the last step.
Production_flashDevStep(k) ==
  /\ svc = "Production" /\ At(k, "devStep")
  /\ LET s == sessions[k]
     IN IF s.i < 5
        THEN Set(k, Go([s EXCEPT !.i = @ + 1], "devStep", <<Production_devUpdate(s.i)>>))
        ELSE Set(k, Go([s EXCEPT !.written = 30, !.verified = TRUE], "devWrite",
                       <<Production_devUpdate(s.i)>>))
  /\ UNCHANGED <<env, isDevelopmentMode, handle, monitor, restartTimers, restartPending>>

\* flashFirmwareDevelopmentMode: one round of the simulated writing loop
\* (for i = 30; i < 85; i += 5); after the last, the final update, the
\* restart timer (2000 ms), return.  s.written holds i.
Production_flashDevWrite(k) ==
  /\ svc = "Production" /\ At(k, "devWrite")
  /\ LET s == sessions[k]
         u == Update("writing", P(s.written), TRUE, "Writing firmware: ")
     IN \/ /\ s.written + 5 < 85
           /\ Set(k, Go([s EXCEPT !.written = @ + 5], "devWrite", <<u>>))
           /\ UNCHANGED restartTimers
        \/ /\ s.written + 5 >= 85
           /\ Set(k, Return([s EXCEPT !.written = 0], <<u, Production_flashComplete>>))
           /\ restartTimers' = restartTimers + 1
  /\ UNCHANGED <<env, isDevelopmentMode, handle, monitor, restartPending>>

\* eraseFlash up to its first await.
Production_eraseFlash ==
  /\ svc = "Production" /\ CanCall
  /\ monitor' = stopSerialMonitoring(monitor)
  /\ LET s == Go(NewSession("erase", AnyActive), "start",
                 <<Update("erasing", P(10), TRUE, "Erasing flash memory...")>>)
     IN \/ /\ isDevelopmentMode
           /\ sessions' = Append(sessions, [s EXCEPT !.pc = "devErase", !.dev = TRUE])
        \/ /\ ~isDevelopmentMode /\ ~loader
           /\ sessions' = Append(sessions,
                 Reject(s, "Device not connected",
                        <<Production_eraseError("Device not connected")>>))
        \/ /\ ~isDevelopmentMode /\ loader
           /\ sessions' = Append(sessions, Issue(Go(s, "erase", <<>>), "erase", 0))
  /\ UNCHANGED <<env, isDevelopmentMode, handle, restartTimers, restartPending>>

\* eraseFlash resumes: loader.eraseFlash or the development-mode delay
\* resolved, or loader.eraseFlash rejected.
Production_eraseResume(k) ==
  /\ svc = "Production" /\ sessions[k].op = "erase"
  /\ LET s == sessions[k]
         done == Update("complete", P(100), FALSE, "Flash erased successfully!")
     IN \/ /\ At(k, "erase")
           /\ Set(k, Return(s, <<done>>))
        \/ /\ At(k, "devErase")
           /\ Set(k, Return(s, <<done>>))
        \/ /\ At(k, "erase")
           /\ \E m \in LoaderErrors :
                Set(k, Reject(StepFailed(s), m, <<Production_eraseError(m)>>))
  /\ UNCHANGED <<env, isDevelopmentMode, handle, monitor, restartTimers, restartPending>>

\* --------------------------------------------------- ProductionESPService
\* The update of flashFirmware's catch block.
ProductionESP_flashError(m) ==
  Update("error", P(0), FALSE, "Flash failed: " \o ErrorToString(m))

\* The update of flashBinary's progress callback.
ProductionESP_writeUpdate(bytesWritten, totalBytes) ==
  Update("writing", P(20 + Round(bytesWritten * 60, totalBytes)), TRUE, "Writing firmware: ")

\* flashFirmware up to its first await: the connection check precedes the try.
ProductionESP_flashFirmware ==
  /\ svc = "ProductionESP" /\ CanCall
  /\ LET s == NewSession("flash", AnyActive)
     IN \/ /\ ~loader
           /\ sessions' = Append(sessions, Reject(s, "Device not connected", <<>>))
           /\ UNCHANGED monitor
        \/ /\ loader
           /\ monitor' = stopSerialMonitoring(monitor)
           /\ sessions' = Append(sessions,
                 Issue(Go(s, "flashBinary",
                          <<Update("connecting", P(0), TRUE, "Preparing to flash..."),
                            Update("erasing", P(10), TRUE, "Erasing flash...")>>),
                       "flashBinary", 0))
  /\ UNCHANGED <<env, isDevelopmentMode, handle, restartTimers, restartPending>>

\* loader.flashBinary wrote its next block and reports through the callback
\* (the loader writes the image front to back, a block at a time).
ProductionESP_flashProgress(k) ==
  /\ svc = "ProductionESP" /\ At(k, "flashBinary")
  /\ LET s == sessions[k]
         to == Min(s.written + Production_chunkSize, firmwareLen)
     IN /\ s.written < firmwareLen
        /\ Set(k, Go(Wrote([s EXCEPT !.written = to], s.written, to), "flashBinary",
                     <<ProductionESP_writeUpdate(to, firmwareLen)>>))
  /\ UNCHANGED <<env, isDevelopmentMode, handle, monitor, restartTimers, restartPending>>

\* flashFirmware resumes after loader.flashBinary resolved: the verifying
\* update, then loader.hardReset.
ProductionESP_flashResume(k) ==
  /\ svc = "ProductionESP" /\ At(k, "flashBinary")
  /\ sessions[k].written = firmwareLen
  /\ Set(k, Issue(Go([sessions[k] EXCEPT !.verified = TRUE], "reset",
                     <<Update("verifying", P(90), TRUE, "Verifying flash...")>>),
                  "reset", 0))
  /\ UNCHANGED <<env, isDevelopmentMode, handle, monitor, restartTimers, restartPending>>

\* flashFirmware resumes after loader.hardReset resolved: the final update,
\* the restart timer (2000 ms), return.
ProductionESP_flashFinish(k) ==
  /\ svc = "ProductionESP" /\ At(k, "reset") /\ sessions[k].op = "flash"
  /\ Set(k, Return(sessions[k],
                   <<Update("complete", P(100), FALSE, "Flash completed successfully!")>>))
  /\ restartTimers' = restartTimers + 1
  /\ UNCHANGED <<env, isDevelopmentMode, handle, monitor, restartPending>>

\* loader.flashBinary or loader.hardReset rejects: the catch block.
ProductionESP_flashFail(k) ==
  /\ svc = "ProductionESP" /\ sessions[k].op = "flash"
  /\ sessions[k].pc \in {"flashBinary", "reset"}
  /\ \E m \in LoaderErrors :
       Set(k, Reject(StepFailed(sessions[k]), m, <<ProductionESP_flashError(m)>>))
  /\ UNCHANGED <<env, isDevelopmentMode, handle, monitor, restartTimers, restartPending>>

\* eraseFlash up to its first await.
ProductionESP_eraseFlash ==
  /\ svc = "ProductionESP" /\ CanCall
  /\ LET s == NewSession("erase", AnyActive)
     IN \/ /\ ~loader
           /\ sessions' = Append(sessions, Reject(s, "Device not connected", <<>>))
           /\ UNCHANGED monitor
        \/ /\ loader
           /\ monitor' = stopSerialMonitoring(monitor)
           /\ sessions' = Append(sessions,
                 Issue(Go(s, "erase", <<Update("erasing", P(0), TRUE, "Erasing flash memory...")>>),
                       "erase", 0))
  /\ UNCHANGED <<env, isDevelopmentMode, handle, restartTimers, restartPending>>

\* eraseFlash resumes: loader.eraseFlash resolved or rejected.
ProductionESP_eraseResume(k) ==
  /\ svc = "ProductionESP" /\ At(k, "erase") /\ sessions[k].op = "erase"
  /\ LET s == sessions[k]
     IN \/ Set(k, Return(s, <<Update("complete", P(100), FALSE, "Flash erased successfully!")>>))
        \/ \E m \in LoaderErrors :
             Set(k, Reject(StepFailed(s), m,
                           <<Update("error", P(0), FALSE, "Erase failed: " \o ErrorToString(m))>>))
  /\ UNCHANGED <<env, isDevelopmentMode, handle, monitor, restartTimers, restartPending>>

\* ---------------------------------------------------------- SerialService
Serial_totalChunks == Ceil(firmwareLen, Serial_chunkSize)

\* The update of one round of writeFirmwareData's loop (i += 50) and of
\* simulateDetailedFlashing's loop (i += ceil(chunks / 8)).
Serial_writeUpdate(i) ==
  Update("writing", P(30 + Round(i * 50, Serial_totalChunks)), TRUE, "Writing firmware: ")

\* The stride of simulateDetailedFlashing's loop.
Serial_mockStride == Ceil(Serial_totalChunks, 8)

\* flashFirmware up to its first await.  Both connection checks precede the
\* try block; a mock connection diverts to simulateDetailedFlashing before
\* stopSerialMonitoring.
Serial_flashFirmware ==
  /\ svc = "Serial" /\ CanCall
  /\ LET s == NewSession("flash", AnyActive)
     IN IF ~isConnected
        THEN /\ sessions' = Append(sessions, Reject(s, "No device connected", <<>>))
             /\ UNCHANGED monitor
        ELSE IF isDevelopmentMode
        THEN /\ sessions' = Append(sessions,
                  Go([s EXCEPT !.dev = TRUE], "mockBoot",
                     <<Update("connecting", P(0), TRUE, "Preparing device for flashing...")>>))
             /\ UNCHANGED monitor
        ELSE IF ~port \/ ~writer
        THEN /\ sessions' = Append(sessions, Reject(s, "Serial port not available", <<>>))
             /\ UNCHANGED monitor
        ELSE /\ monitor' = stopSerialMonitoring(monitor)
             /\ sessions' = Append(sessions,
                  Issue(Go(s, "enterBootloader",
                           <<Update("connecting", P(5), TRUE, "Preparing device for flashing...")>>),
                        "enterBootloader", 0))
  /\ UNCHANGED <<env, isDevelopmentMode, handle, restartTimers, restartPending>>

\* writeFirmwareData's loop from round i on: the round's update and delay,
\* or, past the last round, flashFirmware's verifying update and verifyFlash.
Serial_writeRound(s, i, us) ==
  IF i < Serial_totalChunks
  THEN Issue(Go([s EXCEPT !.i = i], "write", us \o <<Serial_writeUpdate(i)>>),
             "write", i * Serial_chunkSize)
  ELSE Issue(Go(s, "verify", us \o <<Update("verifying", P(80), TRUE, "Verifying flash..."),
                                    Update("verifying", P(85), TRUE, "Verifying flash...")>>),
             "verify", 0)

\* flashFirmware resumes after the delay of enterBootloaderMode,
\* eraseFlashMemory, a writeFirmwareData round, verifyFlash or resetDevice.
Serial_flashResume(k) ==
  /\ svc = "Serial" /\ sessions[k].op = "flash"
  /\ LET s == sessions[k]
     IN \/ /\ At(k, "enterBootloader")
           /\ Set(k, Issue(Go(s, "erase",
                              <<Update("erasing", P(20), TRUE, "Erasing flash memory..."),
                                Update("erasing", P(10), TRUE, "Erasing flash memory...")>>),
                           "erase", 0))
        \/ /\ At(k, "erase")
           /\ Set(k, Serial_writeRound(s, 0,
                       <<Update("writing", P(40), TRUE, "Writing firmware data..."),
                         Update("writing", P(30), TRUE, "Writing firmware data...")>>))
        \/ /\ At(k, "write")
           /\ Set(k, Serial_writeRound(s, s.i + 50, <<>>))
        \/ /\ At(k, "verify")
           /\ Set(k, Issue(Go([s EXCEPT !.verified = TRUE], "reset",
                              <<Update("complete", P(95), TRUE, "Resetting device..."),
                                Update("complete", P(95), TRUE, "Resetting device...")>>),
                           "reset", 0))
        \/ /\ At(k, "reset")
           /\ Set(k, Go(s, "settle",
                        <<Update("complete", P(100), FALSE, "Firmware flashed successfully!")>>))
  /\ UNCHANGED <<env, isDevelopmentMode, handle, monitor, restartTimers, restartPending>>

\* flashFirmware resumes after the 2000 ms delay that follows the final
\* update: startSerialMonitoring, return.
Serial_flashFinish(k) ==
  /\ svc = "Serial" /\ At(k, "settle")
  /\ monitor' = startSerialMonitoring(monitor)
  /\ Set(k, Return(sessions[k], <<>>))
  /\ UNCHANGED <<env, isDevelopmentMode, handle, restartTimers, restartPending>>

\* simulateDetailedFlashing resumes after one of its delays.  It returns
\* after the update of progress 95 and calls restartMonitoring unawaited.
Serial_flashMockStep(k) ==
  /\ svc = "Serial" /\ sessions[k].op = "flash"
  /\ LET s == sessions[k]
         verifying == Update("verifying", P(85), TRUE, "Verifying flash...")
     IN \/ /\ At(k, "mockBoot")
           /\ Set(k, Go(s, "mockErase", <<Update("erasing", P(10), TRUE, "Erasing flash memory...")>>))
           /\ UNCHANGED <<monitor, restartPending>>
        \/ /\ At(k, "mockErase")
           /\ LET w == Update("writing", P(30), TRUE, "Writing firmware data...")
              IN IF 0 < Serial_totalChunks
                 THEN Set(k, Go([s EXCEPT !.i = 0], "mockWrite", <<w, Serial_writeUpdate(0)>>))
                 ELSE Set(k, Go(s, "mockVerify", <<w, verifying>>))
           /\ UNCHANGED <<monitor, restartPending>>
        \/ /\ At(k, "mockWrite")
           /\ LET i == s.i + Serial_mockStride
              IN IF i < Serial_totalChunks
                 THEN Set(k, Go([s EXCEPT !.i = i], "mockWrite", <<Serial_writeUpdate(i)>>))
                 ELSE Set(k, Go(s, "mockVerify", <<verifying>>))
           /\ UNCHANGED <<monitor, restartPending>>
        \/ /\ At(k, "mockVerify")
           /\ Set(k, Go([s EXCEPT !.verified = TRUE], "mockReset",
                        <<Update("complete", P(95), TRUE, "Resetting device...")>>))
           /\ UNCHANGED <<monitor, restartPending>>
        \/ /\ At(k, "mockReset")
           /\ Set(k, Return(s, <<>>))
           /\ monitor' = stopSerialMonitoring(monitor)
           /\ restartPending' = restartPending + 1
  /\ UNCHANGED <<env, isDevelopmentMode, handle, restartTimers>>

\* eraseFlash up to its first await.  It emits no progress update and does
\* not stop the monitor.
Serial_eraseFlash ==
  /\ svc = "Serial" /\ CanCall
  /\ LET s == NewSession("erase", AnyActive)
     IN IF ~isConnected
        THEN sessions' = Append(sessions, Reject(s, "No device connected", <<>>))
        ELSE IF isDevelopmentMode
        THEN sessions' = Append(sessions, Go([s EXCEPT !.dev = TRUE], "mockErase", <<>>))
        ELSE IF ~port \/ ~writer
        THEN sessions' = Append(sessions, Reject(s, "Serial port not available", <<>>))
        ELSE sessions' = Append(sessions, Issue(Go(s, "enterBootloader", <<>>),
                                                "enterBootloader", 0))
  /\ UNCHANGED <<env, isDevelopmentMode, handle, monitor, restartTimers, restartPending>>

\* eraseFlash resumes after enterBootloaderMode, after the erase delay, or
\* after the delays of simulateDetailedErase.
Serial_eraseResume(k) ==
  /\ svc = "Serial" /\ sessions[k].op = "erase"
  /\ LET s == sessions[k]
     IN \/ /\ At(k, "enterBootloader")
           /\ Set(k, Issue(Go(s, "erase", <<>>), "erase", 0))
        \/ /\ At(k, "erase")
           /\ Set(k, Return(s, <<>>))
        \/ /\ At(k, "mockErase")
           /\ Set(k, Return(s, <<>>))
  /\ UNCHANGED <<env, isDevelopmentMode, handle, monitor, restartTimers, restartPending>>

\* ------------------------ ESPWebToolsService, ESPWebToolsOfficialService
WebTools_notConnected ==
  IF svc = "ESPWebTools" THEN "Device not connected" ELSE "No ESP device connected"

\* The rounds of detailedEraseFlash / performFlashErase.
WebTools_eraseRounds ==
  IF svc = "ESPWebTools" THEN ESPWebTools_eraseSteps ELSE Official_sectors

WebTools_chunkSize ==
  IF svc = "ESPWebTools" THEN ESPWebTools_chunkSize ELSE Official_chunkSize

\* An erase round that would report its progress under stage writing.
WebTools_eraseUpdateAsWriting(i) ==
  Update("writing", Scaled(20, i, WebTools_eraseRounds, 60), TRUE, "Erasing ")

\* The update of round i of detailedEraseFlash / performFlashErase.
WebTools_eraseUpdate(i) ==
  Update("erasing", Scaled(20, i, WebTools_eraseRounds, 60), TRUE, "Erasing ")

\* remaining of detailedWriteFirmware / writeFirmwareToFlash at `written`.
WebTools_remaining(written) == Min(WebTools_chunkSize, firmwareLen - written)

\* A writing update whose band starts at 50 instead of 30.
WebTools_writeUpdateFromFifty(written) ==
  Update("writing", Scaled(50, written, firmwareLen, 60), TRUE, "Writing firmware: ")

\* The update of a round of the write loop, after written += remaining.
WebTools_writeUpdate(written) ==
  Update("writing", Scaled(30, written, firmwareLen, 60), TRUE, "Writing firmware: ")

\* The update of the catch block of flashFirmware.
WebTools_flashError(m) ==
  Update("error", P(0), FALSE, "Flash failed: " \o ErrorToString(m))

\* The last update of a successful eraseFlash.
WebTools_eraseComplete ==
  Update("complete", P(100), FALSE,
         IF svc = "ESPWebTools" THEN "Flash erased successfully"
         ELSE "ESP flash erased successfully")

\* flashFirmware up to its first await: the connection check precedes the
\* try block; the monitor is not stopped.
WebTools_flashFirmware ==
  /\ svc \in {"ESPWebTools", "Official"} /\ CanCall
  /\ LET s == NewSession("flash", AnyActive)
     IN IF ~port \/ ~writer
        THEN sessions' = Append(sessions, Reject(s, WebTools_notConnected, <<>>))
        ELSE sessions' = Append(sessions,
               Issue(Go(s, "enterBootloader",
                        <<Update("connecting", P(0), TRUE, "Preparing ESP32 for firmware update...")>>),
                     "enterBootloader", 0))
  /\ UNCHANGED <<env, isDevelopmentMode, handle, monitor, restartTimers, restartPending>>

\* The write loop from `written` on: one round (the chunk, the update, the
\* delay), or, once written = totalSize, the verifying update and
\* verifyFirmware.
WebTools_writeRound(s, us) ==
  IF s.written < firmwareLen
  THEN LET to == s.written + WebTools_remaining(s.written)
       IN Issue(Go(Wrote([s EXCEPT !.written = to], s.written, to), "write",
                   us \o <<WebTools_writeUpdate(to)>>),
                "write", s.written)
  ELSE Issue(Go(s, "verify", us \o <<Update("verifying", P(90), TRUE, "Verifying firmware...")>>),
             "verify", 0)

\* flashFirmware after its erase step returned: the writing update and the
\* write loop.
WebTools_startWrite(s, us) ==
  WebTools_writeRound(s, us \o <<Update("writing", P(30), TRUE, "Writing firmware to flash...")>>)

\* flashFirmware resumes after enterBootloaderMode / enterDownloadMode.
\* ESPWebToolsService goes on to detailedEraseFlash; the Official service
\* calls its public eraseFlash, which checks the connection, emits its own
\* updates and enters download mode again.
WebTools_flashEnter(k) ==
  /\ svc \in {"ESPWebTools", "Official"} /\ At(k, "enterBootloader")
  /\ sessions[k].op = "flash"
  /\ LET s == sessions[k]
         erasing == Update("erasing", P(15), TRUE, "Erasing flash memory...")
     IN IF svc = "ESPWebTools"
        THEN Set(k, Issue(Go([s EXCEPT !.i = 0], "erase", <<erasing, WebTools_eraseUpdate(0)>>),
                          "erase", 0))
        ELSE IF ~port \/ ~writer
        THEN Set(k, Reject(StepFailed(Issue(s, "erase", 0)), WebTools_notConnected,
                           <<erasing, WebTools_flashError(WebTools_notConnected)>>))
        ELSE Set(k, Issue(Go(s, "eraseEnter",
                             <<erasing,
                               Update("connecting", P(0), TRUE, "Preparing ESP device for erase...")>>),
                          "enterBootloader", 0))
  /\ UNCHANGED <<env, isDevelopmentMode, handle, monitor, restartTimers, restartPending>>

\* The erase rounds, shared by flashFirmware and eraseFlash: after the last
\* round eraseFlash emits its final update, and flashFirmware goes on to
\* the write loop (the Official service through eraseFlash's final update).
WebTools_eraseRound(k) ==
  /\ svc \in {"ESPWebTools", "Official"}
  /\ LET s == sessions[k]
     IN \/ /\ At(k, "eraseEnter")
           /\ Set(k, Issue(Go([s EXCEPT !.i = 0], "erase",
                              <<Update("erasing", P(20), TRUE, "Erasing flash memory..."),
                                WebTools_eraseUpdate(0)>>),
                           "erase", 0))
        \/ /\ At(k, "erase") /\ s.i + 1 < WebTools_eraseRounds
           /\ Set(k, Go([s EXCEPT !.i = @ + 1], "erase", <<WebTools_eraseUpdate(s.i + 1)>>))
        \/ /\ At(k, "erase") /\ s.i + 1 >= WebTools_eraseRounds
           /\ Set(k, IF s.op = "erase" THEN Return(s, <<WebTools_eraseComplete>>)
                     ELSE IF svc = "ESPWebTools" THEN WebTools_startWrite(s, <<>>)
                     ELSE WebTools_startWrite(s, <<WebTools_eraseComplete>>))
  /\ UNCHANGED <<env, isDevelopmentMode, handle, monitor, restartTimers, restartPending>>

\* flashFirmware resumes after a round of the write loop, after
\* verifyFirmware, or after resetDevice / resetESPDevice (then: the final
\* update, the restart timer (2000 ms), return).
WebTools_flashResume(k) ==
  /\ svc \in {"ESPWebTools", "Official"} /\ sessions[k].op = "flash"
  /\ LET s == sessions[k]
     IN \/ /\ At(k, "write")
           /\ Set(k, WebTools_writeRound(s, <<>>))
           /\ UNCHANGED restartTimers
        \/ /\ At(k, "verify")
           /\ Set(k, Issue(Go([s EXCEPT !.verified = TRUE], "reset",
                              <<Update("resetting", P(95), TRUE, "Resetting device...")>>),
                           "reset", 0))
           /\ UNCHANGED restartTimers
        \/ /\ At(k, "reset")
           /\ Set(k, Return(s, <<Update("complete", P(100), FALSE, "Firmware flashed successfully!")>>))
           /\ restartTimers' = restartTimers + 1
  /\ UNCHANGED <<env, isDevelopmentMode, handle, monitor, restartPending>>

\* eraseFlash up to its first await.
WebTools_eraseFlash ==
  /\ svc \in {"ESPWebTools", "Official"} /\ CanCall
  /\ LET s == NewSession("erase", AnyActive)
     IN IF ~port \/ ~writer
        THEN sessions' = Append(sessions, Reject(s, WebTools_notConnected, <<>>))
        ELSE sessions' = Append(sessions,
               Issue(Go(s, "eraseEnter",
                        <<Update("connecting", P(0), TRUE, "Preparing device for erase...")>>),
                     "enterBootloader", 0))
  /\ UNCHANGED <<env, isDevelopmentMode, handle, monitor, restartTimers, restartPending>>

\* A TextDecoder('utf-8') that holds no bytes of an unfinished character.
Utf8Fresh == [needed |-> 0, seen |-> 0, cp |-> 0, lower |-> 128, upper |-> 191]

\* No subscriber has registered and nothing was logged.
InitLogs ==
  /\ onMessage = "none"
  /\ terminalMounted = FALSE
  /\ isOpen = FALSE /\ monitorConnected = FALSE
  /\ registered = {}
  /\ since = [x \in Subscribers |-> 0]
  /\ received = [x \in Subscribers |-> <<>>]
  /\ logged = 0

\* No device: the hook is not mounted and connect() has returned nothing.
NoDevice == [chipType |-> "", macAddress |-> <<>>, flashSize |-> ""]

InitInfo ==
  /\ onConnectionChange = FALSE
  /\ deviceInfo = NoDevice
  /\ queried = <<>>

\* The components that call useDeviceConnection().
Components == {"Home", "DeviceConnection"}

\* useDeviceConnection's useState: the state of a call whose component has
\* not mounted; checking: checkInitialConnection awaits getDeviceInfo().
Unmounted == [mounted |-> FALSE, isConnected |-> FALSE, checking |-> FALSE]

\* FlashingProcess's useState.
IdleFlashingState == [stage |-> "idle", progress |-> <<0, 1>>, isFlashing |-> FALSE, message |-> ""]

\* The page is not shown.
NoPage ==
  /\ hooks = [c \in Components |-> Unmounted]
  /\ robustSerialService = [port |-> FALSE, isDevelopmentMode |-> FALSE]
  /\ flashingState = IdleFlashingState
  /\ handleFlashAt = [pc |-> "idle", i |-> 0]

\* The device sends nothing.
InitRx ==
  /\ incoming = <<>> /\ chunksRead = <<>>
  /\ textDecoder = Utf8Fresh
  /\ decoded = <<>> /\ buffer = <<>> /\ deviceLog = <<>>

Init ==
  /\ svc \in Services
  /\ webSerial \in BOOLEAN
  /\ svc \notin HasDevMode => webSerial
  /\ isDevelopmentMode = ~webSerial
  /\ port = FALSE /\ portOpen = FALSE /\ reader = FALSE /\ writer = FALSE
  /\ loader = FALSE
  /\ monitor = NoMonitor
  /\ restartTimers = 0
  /\ restartPending = 0
  /\ firmwareLen \in FirmwareSizes
  /\ everConnected = FALSE
  /\ sessions = <<>>
  /\ InitLogs
  /\ InitRx
  /\ InitInfo
  /\ deviceAcks = TRUE
  /\ NoPage


Next ==
  \/ Robust_connect \/ Robust_disconnect
  \/ Serial_connect \/ Serial_disconnect
  \/ WebTools_connect \/ WebTools_disconnect
  \/ Production_connect \/ Production_disconnect
  \/ ProductionESP_connect \/ ProductionESP_disconnect
  \/ restartMonitoring \/ restartMonitoring_resume \/ RestartTimer \/ MonitorRead
  \/ Robust_flashFirmware \/ Robust_eraseFlash
  \/ Production_flashFirmware \/ Production_eraseFlash
  \/ ProductionESP_flashFirmware \/ ProductionESP_eraseFlash
  \/ Serial_flashFirmware \/ Serial_eraseFlash
  \/ WebTools_flashFirmware \/ WebTools_eraseFlash
  \/ \E k \in DOMAIN sessions : Robust_flashResume(k)
  \/ \E k \in DOMAIN sessions : Robust_flashFinish(k)
  \/ \E k \in DOMAIN sessions : Robust_flashDevStep(k)
  \/ \E k \in DOMAIN sessions : Robust_flashDevWrite(k)
  \/ \E k \in DOMAIN sessions : Robust_eraseResume(k)
  \/ \E k \in DOMAIN sessions : Production_flashResume(k)
  \/ \E k \in DOMAIN sessions : Production_flashFinish(k)
  \/ \E k \in DOMAIN sessions : Production_flashFail(k)
  \/ \E k \in DOMAIN sessions : Production_flashDevStep(k)
  \/ \E k \in DOMAIN sessions : Production_flashDevWrite(k)
  \/ \E k \in DOMAIN sessions : Production_eraseResume(k)
  \/ \E k \in DOMAIN sessions : ProductionESP_flashProgress(k)
  \/ \E k \in DOMAIN sessions : ProductionESP_flashResume(k)
  \/ \E k \in DOMAIN sessions : ProductionESP_flashFinish(k)
  \/ \E k \in DOMAIN sessions : ProductionESP_flashFail(k)
  \/ \E k \in DOMAIN sessions : ProductionESP_eraseResume(k)
  \/ \E k \in DOMAIN sessions : Serial_flashResume(k)
  \/ \E k \in DOMAIN sessions : Serial_flashFinish(k)
  \/ \E k \in DOMAIN sessions : Serial_flashMockStep(k)
  \/ \E k \in DOMAIN sessions : Serial_eraseResume(k)
  \/ \E k \in DOMAIN sessions : WebTools_flashEnter(k)
  \/ \E k \in DOMAIN sessions : WebTools_eraseRound(k)
  \/ \E k \in DOMAIN sessions : WebTools_flashResume(k)

Spec == Init /\ [][Next]_vars

\* ---------------------------------------------- the log subscribers
\* The state of the service itself, which the subscribers' steps leave alone.
service == <<svc, webSerial, firmwareLen, deviceAcks, page, everConnected, isDevelopmentMode, handle,
             monitor, restartTimers, restartPending, sessions, rx, info>>

\* setMessageHandler(handler) with the handler of subscriber x: the single
\* field onMessage is overwritten.
setMessageHandler(x) ==
  /\ onMessage' = x
  /\ registered' = registered \cup {x}
  /\ since' = IF x \in registered THEN since ELSE [since EXCEPT ![x] = logged]
  /\ received' = IF x \in registered THEN received ELSE [received EXCEPT ![x] = <<>>]

\* setMessageHandler(() => {}) in the cleanup of SerialMonitor's effect: the
\* monitor unsubscribes.
setNoHandler ==
  /\ onMessage' = "noop"
  /\ registered' = registered \ {"SerialMonitor"}
  /\ UNCHANGED <<since, received>>

\* Terminal's mount effect.
Terminal_mount ==
  /\ ~terminalMounted
  /\ terminalMounted' = TRUE
  /\ setMessageHandler("Terminal")
  /\ UNCHANGED <<service, isOpen, monitorConnected, logged>>

\* SerialMonitor is opened: the cleanup of the effect that ran with isOpen
\* false installs the empty handler, then the effect installs the monitor's.
SerialMonitor_open ==
  /\ ~isOpen
  /\ isOpen' = TRUE
  /\ setMessageHandler("SerialMonitor")
  /\ UNCHANGED <<service, terminalMounted, monitorConnected, logged>>

\* SerialMonitor is closed: the cleanup of the effect that ran with isOpen
\* true does nothing, and neither does the effect.
SerialMonitor_close ==
  /\ isOpen
  /\ isOpen' = FALSE
  /\ UNCHANGED <<service, onMessage, terminalMounted, monitorConnected, registered,
                 since, received, logged>>

\* SerialMonitor's prop isConnected changes: cleanup and effect run again.
SerialMonitor_connectionChange ==
  /\ monitorConnected' = ~monitorConnected
  /\ IF isOpen THEN setMessageHandler("SerialMonitor") ELSE setNoHandler
  /\ UNCHANGED <<service, terminalMounted, isOpen, logged>>

\* logMessage(): the message goes to the handler onMessage holds.
logMessage ==
  /\ logged < MaxLogs
  /\ logged' = logged + 1
  /\ received' = IF onMessage \in Subscribers
                 THEN [received EXCEPT ![onMessage] = Append(@, logged + 1)]
                 ELSE received
  /\ UNCHANGED <<service, onMessage, terminalMounted, isOpen, monitorConnected,
                 registered, since>>

InitLog == Init /\ svc = "Serial" /\ webSerial /\ firmwareLen = 0

NextLog ==
  \/ Terminal_mount
  \/ SerialMonitor_open
  \/ SerialMonitor_close
  \/ SerialMonitor_connectionChange
  \/ logMessage

SpecLog == InitLog /\ [][NextLog]_vars

\* ------------------------ ProductionSerialService flashing one large image
\* flashFirmware is called once.
Production_flashOnce == sessions = <<>> /\ Production_flashFirmware

\* A fresh ProductionSerialService in a browser with Web Serial, given an
\* image of 256,000 bytes.
InitImage ==
  /\ svc = "Production" /\ webSerial = TRUE /\ isDevelopmentMode = FALSE
  /\ port = FALSE /\ portOpen = FALSE /\ reader = FALSE /\ writer = FALSE
  /\ loader = FALSE
  /\ monitor = NoMonitor
  /\ restartTimers = 0 /\ restartPending = 0
  /\ firmwareLen = 256000
  /\ everConnected = FALSE
  /\ sessions = <<>>
  /\ InitLogs
  /\ InitRx
  /\ InitInfo
  /\ deviceAcks = TRUE
  /\ NoPage

NextImage ==
  \/ Production_connect
  \/ Production_flashOnce
  \/ \E k \in DOMAIN sessions : Production_flashResume(k)
  \/ \E k \in DOMAIN sessions : Production_flashFinish(k)
  \/ \E k \in DOMAIN sessions : Production_flashFail(k)

SpecImage == InitImage /\ [][NextImage]_vars

\* ------------------------------- the read loop of SerialService's monitor
\* Text is a sequence of code points, a chunk a sequence of bytes.
Replacement == 65533     \* U+FFFD
LineFeed == 10
Colon == 58
DevicePrefix == <<91, 68, 69, 86, 73, 67, 69, 93, 32>>     \* "[DEVICE] "
ERROR == <<69, 82, 82, 79, 82>>
FAIL == <<70, 65, 73, 76>>
WARNING == <<87, 65, 82, 78, 73, 78, 71>>
WARN == <<87, 65, 82, 78>>
SUCCESS == <<83, 85, 67, 67, 69, 83, 83>>
OK == <<79, 75>>
READY == <<82, 69, 65, 68, 89>>

\* What String.prototype.trim removes.
WhiteSpace ==
  {9, 10, 11, 12, 13, 32, 160, 5760, 8232, 8233, 8239, 8287, 12288, 65279}
    \cup (8192..8202)

\* The pieces of device output the byte streams are made of: the keywords
\* ERROR, FAIL, WARNING and OK, a line feed, and the UTF-8 encodings of
\* U+00E9 (2 bytes) and U+20AC (3 bytes).
Fragments ==
  {ERROR, FAIL, WARNING, OK, <<LineFeed>>, <<195, 169>>, <<226, 130, 172>>}

RECURSIVE Flatten(_)
Flatten(ss) == IF ss = <<>> THEN <<>> ELSE Head(ss) \o Flatten(Tail(ss))

Streams ==
  {Flatten(fs) : fs \in UNION {[1..n -> Fragments] : n \in 1..MaxFragments}}

\* The stream delivered by one read (n = Len(stream)) or cut after byte n.
Chunked(stream, n) ==
  IF n = Len(stream) THEN <<stream>>
  ELSE <<SubSeq(stream, 1, n), SubSeq(stream, n + 1, Len(stream))>>

\* The UTF-8 decoder reads byte b with no character unfinished.
Utf8_first(b) ==
  IF b <= 127 THEN [st |-> Utf8Fresh, out |-> <<b>>]
  ELSE IF b >= 194 /\ b <= 223
  THEN [st |-> [Utf8Fresh EXCEPT !.needed = 1, !.cp = b % 32], out |-> <<>>]
  ELSE IF b >= 224 /\ b <= 239
  THEN [st |-> [Utf8Fresh EXCEPT !.needed = 2, !.cp = b % 16,
                                 !.lower = IF b = 224 THEN 160 ELSE 128,
                                 !.upper = IF b = 237 THEN 159 ELSE 191],
        out |-> <<>>]
  ELSE IF b >= 240 /\ b <= 244
  THEN [st |-> [Utf8Fresh EXCEPT !.needed = 3, !.cp = b % 8,
                                 !.lower = IF b = 240 THEN 144 ELSE 128,
                                 !.upper = IF b = 244 THEN 143 ELSE 191],
        out |-> <<>>]
  ELSE [st |-> Utf8Fresh, out |-> <<Replacement>>]

\* The UTF-8 decoder in state st reads byte b: an unexpected byte ends the
\* unfinished character with U+FFFD and is read again.
Utf8_byte(st, b) ==
  IF st.needed = 0 THEN Utf8_first(b)
  ELSE IF b < st.lower \/ b > st.upper
  THEN [st |-> Utf8_first(b).st, out |-> <<Replacement>> \o Utf8_first(b).out]
  ELSE LET cp == st.cp * 64 + (b % 64)
       IN IF st.seen + 1 = st.needed
          THEN [st |-> Utf8Fresh, out |-> <<cp>>]
          ELSE [st |-> [st EXCEPT !.cp = cp, !.seen = @ + 1, !.lower = 128, !.upper = 191],
                out |-> <<>>]

RECURSIVE Utf8_bytes(_, _)
Utf8_bytes(st, bytes) ==
  IF bytes = <<>> THEN [st |-> st, out |-> <<>>]
  ELSE LET r == Utf8_byte(st, Head(bytes))
           rest == Utf8_bytes(r.st, Tail(bytes))
       IN [st |-> rest.st, out |-> r.out \o rest.out]

\* decode(value) without the stream option: an unfinished character at the
\* end of the chunk becomes U+FFFD and the decoder starts afresh.
TextDecoder_decodeFlushing(st, value) ==
  LET r == Utf8_bytes(st, value)
  IN [st |-> Utf8Fresh,
      out |-> r.out \o (IF r.st.needed # 0 THEN <<Replacement>> ELSE <<>>)]

\* textDecoder.decode(value, { stream: true }): the bytes of an unfinished
\* character stay in the decoder.
TextDecoder_decode(st, value) == Utf8_bytes(st, value)

\* text.split('\n')
RECURSIVE Split(_)
Split(text) ==
  IF \A i \in 1..Len(text) : text[i] # LineFeed THEN <<text>>
  ELSE LET n == CHOOSE i \in 1..Len(text) :
                  text[i] = LineFeed /\ \A j \in 1..(i - 1) : text[j] # LineFeed
       IN <<SubSeq(text, 1, n - 1)>> \o Split(SubSeq(text, n + 1, Len(text)))

\* line.trim()
Trim(line) ==
  LET keep == {i \in 1..Len(line) : line[i] \notin WhiteSpace}
  IN IF keep = {} THEN <<>>
     ELSE SubSeq(line, CHOOSE i \in keep : \A j \in keep : i <= j,
                       CHOOSE i \in keep : \A j \in keep : i >= j)

\* line.includes(keyword)
Includes(line, keyword) ==
  \E i \in 1..(Len(line) - Len(keyword) + 1) :
    SubSeq(line, i, i + Len(keyword) - 1) = keyword

\* A classification that tests the warning keywords first.
messageTypeWarningFirst(line) ==
  IF Includes(line, WARNING) \/ Includes(line, WARN) THEN "warning"
  ELSE IF Includes(line, ERROR) \/ Includes(line, FAIL) THEN "error"
  ELSE IF Includes(line, SUCCESS) \/ Includes(line, OK) \/ Includes(line, READY)
  THEN "success"
  ELSE "info"

\* The message type the read loop gives a trimmed line.
messageType(line) ==
  IF Includes(line, ERROR) \/ Includes(line, FAIL) THEN "error"
  ELSE IF Includes(line, WARNING) \/ Includes(line, WARN) THEN "warning"
  ELSE IF Includes(line, SUCCESS) \/ Includes(line, OK) \/ Includes(line, READY)
  THEN "success"
  ELSE "info"

\* The messages logged for the complete lines, in order: blank lines are
\* skipped.
RECURSIVE DeviceMessages(_)
DeviceMessages(lines) ==
  IF lines = <<>> THEN <<>>
  ELSE LET trimmedLine == Trim(Head(lines))
       IN (IF trimmedLine = <<>> THEN <<>>
           ELSE <<[line |-> trimmedLine, message |-> DevicePrefix \o trimmedLine,
                   type |-> messageType(trimmedLine)]>>)
          \o DeviceMessages(Tail(lines))

\* A read loop that keeps nothing of the last, incomplete line.
Serial_monitorRestDropped(lines) == <<>>

\* buffer = lines.pop() || '': the incomplete last line stays in the buffer.
Serial_monitorRest(lines) == lines[Len(lines)]

\* The loop condition is evaluated after a round: a loop whose condition
\* fails ends.
MonitorLoopHead(m) == IF LoopContinues(m) THEN m ELSE [m EXCEPT !.reads = @ - 1]

\* One round of the read loop of startRealSerialMonitoring: reader.read()
\* resolves with a chunk, which is decoded and appended to the buffer; the
\* complete lines are logged and the rest stays in the buffer.  isMonitoring
\* is tested only afterwards, at the head of the loop.
Serial_monitorData ==
  /\ svc = "Serial" /\ monitor.reads > 0
  /\ incoming # <<>>
  /\ monitor' = MonitorLoopHead(monitor)
  /\ LET value == Head(incoming)
         r == TextDecoder_decode(textDecoder, value)
         lines == Split(buffer \o r.out)
         msgs == DeviceMessages(SubSeq(lines, 1, Len(lines) - 1))
     IN /\ incoming' = Tail(incoming)
        /\ chunksRead' = Append(chunksRead, value)
        /\ textDecoder' = r.st
        /\ decoded' = decoded \o r.out
        /\ buffer' = Serial_monitorRest(lines)
        /\ deviceLog' = deviceLog \o msgs
        /\ logged' = logged + Len(msgs)
        /\ received' = IF onMessage \in Subscribers
                       THEN [received EXCEPT ![onMessage] =
                               @ \o [i \in 1..Len(msgs) |-> logged + i]]
                       ELSE received
  /\ UNCHANGED <<svc, webSerial, firmwareLen, deviceAcks, page, everConnected, isDevelopmentMode, handle,
                 restartTimers, restartPending, sessions, onMessage,
                 terminalMounted, isOpen, monitorConnected, registered, since, info>>

\* SerialService connected to a real port, its monitor loop waiting in
\* reader.read(); the device is about to send a byte stream, in one chunk or
\* in two.
InitMonitor ==
  /\ svc = "Serial" /\ webSerial = TRUE /\ isDevelopmentMode = FALSE
  /\ port = TRUE /\ portOpen = TRUE /\ reader = TRUE /\ writer = TRUE
  /\ loader = FALSE
  /\ monitor = [NoMonitor EXCEPT !.isMonitoring = TRUE, !.ctrl = "live", !.reads = 1]
  /\ restartTimers = 0 /\ restartPending = 0
  /\ firmwareLen = 0
  /\ everConnected = TRUE
  /\ sessions = <<>>
  /\ InitLogs
  /\ incoming \in UNION {{Chunked(stream, n) : n \in 1..Len(stream)} : stream \in Streams}
  /\ chunksRead = <<>>
  /\ textDecoder = Utf8Fresh
  /\ decoded = <<>> /\ buffer = <<>> /\ deviceLog = <<>>
  /\ InitInfo
  /\ deviceAcks = TRUE
  /\ NoPage

NextMonitor == Serial_monitorData

SpecMonitor == InitMonitor /\ [][NextMonitor]_vars

\* --------------- SerialService's monitor stopped while a read is pending
\* The read loop, and restartMonitoring(): stop, a delay, start.
NextMonitorStop ==
  \/ Serial_monitorData
  \/ restartMonitoring
  \/ restartMonitoring_resume

SpecMonitorStop == InitMonitor /\ [][NextMonitorStop]_vars

\* ------------------------- the read loop of RobustSerialService's monitor
\* The messages logged for the pieces of one read: blank pieces are skipped,
\* every message is the trimmed piece, of type info.
RECURSIVE Robust_deviceMessages(_)
Robust_deviceMessages(lines) ==
  IF lines = <<>> THEN <<>>
  ELSE LET trimmed == Trim(Head(lines))
       IN (IF trimmed = <<>> THEN <<>>
           ELSE <<[line |-> trimmed, message |-> trimmed, type |-> "info"]>>)
          \o Robust_deviceMessages(Tail(lines))

\* One round of the read loop of startRealSerialMonitoring: reader.read()
\* resolves with a chunk; a TextDecoder constructed for this round decodes
\* it, and every piece of the split text is logged.  The decoder, with the
\* bytes of an unfinished character it holds, is dropped at the end of the
\* round.
Robust_monitorData ==
  /\ svc = "Robust" /\ monitor.reads > 0
  /\ incoming # <<>>
  /\ monitor' = MonitorLoopHead(monitor)
  /\ LET value == Head(incoming)
         r == TextDecoder_decode(Utf8Fresh, value)
         msgs == Robust_deviceMessages(Split(r.out))
     IN /\ incoming' = Tail(incoming)
        /\ chunksRead' = Append(chunksRead, value)
        /\ textDecoder' = r.st
        /\ decoded' = decoded \o r.out
        /\ deviceLog' = deviceLog \o msgs
        /\ logged' = logged + Len(msgs)
        /\ received' = IF onMessage \in Subscribers
                       THEN [received EXCEPT ![onMessage] =
                               @ \o [i \in 1..Len(msgs) |-> logged + i]]
                       ELSE received
  /\ UNCHANGED <<svc, webSerial, firmwareLen, deviceAcks, page, everConnected,
                 isDevelopmentMode, handle, restartTimers, restartPending,
                 sessions, onMessage, terminalMounted, isOpen, monitorConnected,
                 registered, since, info, buffer>>

\* RobustSerialService connected to a real port, its monitor loop waiting in
\* reader.read(); the device is about to send a byte stream, in one chunk or
\* in two.
InitRobustMonitor ==
  /\ svc = "Robust" /\ webSerial = TRUE /\ isDevelopmentMode = FALSE
  /\ port = TRUE /\ portOpen = TRUE /\ reader = TRUE /\ writer = TRUE
  /\ loader = FALSE
  /\ monitor = [NoMonitor EXCEPT !.isMonitoring = TRUE, !.ctrl = "live", !.reads = 1]
  /\ restartTimers = 0 /\ restartPending = 0
  /\ firmwareLen = 0
  /\ everConnected = TRUE
  /\ sessions = <<>>
  /\ InitLogs
  /\ incoming \in UNION {{Chunked(stream, n) : n \in 1..Len(stream)} : stream \in Streams}
  /\ chunksRead = <<>>
  /\ textDecoder = Utf8Fresh
  /\ decoded = <<>> /\ buffer = <<>> /\ deviceLog = <<>>
  /\ InitInfo
  /\ deviceAcks = TRUE
  /\ NoPage

NextRobustMonitor == Robust_monitorData

SpecRobustMonitor == InitRobustMonitor /\ [][NextRobustMonitor]_vars

\* ------------------------------------ the DeviceInfo of SerialService
\* The values Math.floor(Math.random() * 16) takes in one call of
\* generateMockMacAddress, two for each of the six octets.
RandomRuns == {[i \in 1..12 |-> (d * i) % 16] : d \in 0..(MaxRandom - 1)}

\* chars[d] for chars = '0123456789ABCDEF', as a code point.
HexChar(d) == IF d < 10 THEN 48 + d ELSE 55 + d

\* generateMockMacAddress: six octets of two hexadecimal digits, joined by
\* colons.
generateMockMacAddress(run) ==
  [j \in 1..17 |-> IF j % 3 = 0 THEN Colon
                   ELSE HexChar(run[2 * ((j - 1) \div 3) + ((j - 1) % 3) + 1])]

\* getDeviceInfo: a fixed chip type and flash size, and a generated address.
getDeviceInfo(run) ==
  [chipType |-> "ESP32-D0WD-V3", macAddress |-> generateMockMacAddress(run),
   flashSize |-> "4MB"]

\* What the hook's steps leave alone.
hookLeaves == <<svc, webSerial, firmwareLen, deviceAcks, page, everConnected, isDevelopmentMode, handle,
                monitor, restartTimers, restartPending, sessions, logs, rx>>

\* checkInitialConnection: when the service is connected, the device shown is
\* the one getDeviceInfo() yields.
checkInitialConnection ==
  /\ svc = "Serial"
  /\ Len(queried) < MaxQueries
  /\ isConnected
  /\ \E run \in RandomRuns : queried' = Append(queried, getDeviceInfo(run))
  /\ UNCHANGED <<hookLeaves, onConnectionChange, deviceInfo>>

\* The mount effect of useDeviceConnection: it registers
\* handleConnectionChange and runs checkInitialConnection.
useDeviceConnection_mount ==
  /\ svc = "Serial"
  /\ ~ onConnectionChange
  /\ onConnectionChange' = TRUE
  /\ IF isConnected /\ Len(queried) < MaxQueries
     THEN \E run \in RandomRuns : queried' = Append(queried, getDeviceInfo(run))
     ELSE UNCHANGED queried
  /\ ~ isConnected \/ Len(queried) < MaxQueries
  /\ UNCHANGED <<hookLeaves, deviceInfo>>

\* The cleanup of the effect: the handler is replaced by one that does
\* nothing.
useDeviceConnection_unmount ==
  /\ svc = "Serial"
  /\ onConnectionChange
  /\ onConnectionChange' = FALSE
  /\ UNCHANGED <<hookLeaves, deviceInfo, queried>>

\* The hook's connect: serialService.connect() returns the DeviceInfo of one
\* getDeviceInfo() call; on the path that opens a real port the service calls
\* onConnectionChange(true), and handleConnectionChange calls getDeviceInfo()
\* again.
useDeviceConnection_connect ==
  /\ \E path \in Serial_connectPaths :
       /\ Serial_connectPath(path)
       /\ IF path \in Serial_connectReturns
          THEN \E run \in RandomRuns, again \in RandomRuns :
                 /\ deviceInfo' = getDeviceInfo(run)
                 /\ queried' = IF path = "opened" /\ onConnectionChange
                               THEN <<getDeviceInfo(again)>>
                               ELSE <<>>
          ELSE UNCHANGED <<deviceInfo, queried>>
  /\ UNCHANGED <<svc, webSerial, firmwareLen, deviceAcks, page, logs, rx, restartTimers, restartPending,
                 sessions, onConnectionChange>>

\* The hook's disconnect: serialService.disconnect() ends the connection.
useDeviceConnection_disconnect ==
  /\ Serial_closing
  /\ deviceInfo' = NoDevice
  /\ queried' = <<>>
  /\ UNCHANGED <<svc, webSerial, firmwareLen, deviceAcks, page, logs, rx, everConnected, loader,
                 restartTimers, restartPending, sessions, onConnectionChange>>

\* A fresh SerialService, with or without Web Serial.
InitDevice == Init /\ svc = "Serial" /\ firmwareLen = 0

NextDevice ==
  \/ useDeviceConnection_mount
  \/ useDeviceConnection_unmount
  \/ useDeviceConnection_connect
  \/ useDeviceConnection_disconnect
  \/ checkInitialConnection

SpecDevice == InitDevice /\ [][NextDevice]_vars

\* ----------------------------- the page: Home, DeviceConnection, FlashingProcess
\* Home and DeviceConnection each call useDeviceConnection(), which keeps its
\* state in a useState of the calling component and talks to serialService;
\* FlashingProcess gets Home's isConnected as isDeviceConnected and flashes
\* through robustSerialService.

\* What the page's steps leave alone.
pageLeaves == <<svc, webSerial, firmwareLen, deviceAcks, logs, rx, info, restartTimers,
                restartPending, sessions>>

\* The state of a useDeviceConnection() call once its mount effect has run:
\* checkInitialConnection reads serialService.isConnected() and, when that
\* is true, awaits getDeviceInfo() before it sets isConnected.
Mounted == [mounted |-> TRUE, isConnected |-> FALSE, checking |-> isConnected]

\* Home is rendered: Home, DeviceConnection and FlashingProcess mount, each
\* with fresh state; the module-level services keep theirs.
Home_mount ==
  /\ svc = "Serial"
  /\ ~ hooks["Home"].mounted
  /\ hooks' = [c \in Components |-> Mounted]
  /\ flashingState' = IdleFlashingState
  /\ UNCHANGED <<pageLeaves, everConnected, isDevelopmentMode, handle, monitor,
                 robustSerialService, handleFlashAt>>

\* Home leaves the screen while no handleFlash is in flight.
Home_unmount ==
  /\ svc = "Serial"
  /\ hooks["Home"].mounted
  /\ handleFlashAt.pc = "idle"
  /\ hooks' = [c \in Components |-> Unmounted]
  /\ flashingState' = IdleFlashingState
  /\ UNCHANGED <<pageLeaves, everConnected, isDevelopmentMode, handle, monitor,
                 robustSerialService, handleFlashAt>>

\* checkInitialConnection of component c: getDeviceInfo() resolved, the
\* call sets isConnected true.
checkInitialConnection_resume(c) ==
  /\ svc = "Serial"
  /\ hooks[c].mounted /\ hooks[c].checking
  /\ hooks' = [hooks EXCEPT ![c].isConnected = TRUE, ![c].checking = FALSE]
  /\ UNCHANGED <<pageLeaves, everConnected, isDevelopmentMode, handle, monitor,
                 robustSerialService, flashingState, handleFlashAt>>

\* The Connect Device button, shown while DeviceConnection's isConnected is
\* false: connect() of DeviceConnection's useDeviceConnection() call sets
\* that call's state from the outcome of serialService.connect().
DeviceConnection_connect ==
  /\ hooks["DeviceConnection"].mounted
  /\ ~ hooks["DeviceConnection"].isConnected
  /\ \E path \in Serial_connectPaths :
       /\ Serial_connectPath(path)
       /\ hooks' = [hooks EXCEPT !["DeviceConnection"].isConnected =
                                   (path \in Serial_connectReturns)]
  /\ UNCHANGED <<pageLeaves, robustSerialService, flashingState, handleFlashAt>>

\* The Disconnect button, shown while DeviceConnection's isConnected is
\* true: disconnect() of the same call.
DeviceConnection_disconnect ==
  /\ hooks["DeviceConnection"].mounted
  /\ hooks["DeviceConnection"].isConnected
  /\ Serial_closing
  /\ hooks' = [hooks EXCEPT !["DeviceConnection"].isConnected = FALSE]
  /\ UNCHANGED <<pageLeaves, everConnected, loader, robustSerialService, flashingState,
                 handleFlashAt>>

\* FlashingProcess's canFlash, a firmware being selected.
canFlash ==
  /\ hooks["Home"].mounted /\ hooks["Home"].isConnected
  /\ ~ flashingState.isFlashing

\* handleFlash, from the Flash Firmware button to the await of the download.
FlashingProcess_handleFlash ==
  /\ svc = "Serial"
  /\ canFlash /\ handleFlashAt.pc = "idle"
  /\ flashingState' = Update("connecting", P(0), TRUE, "Downloading firmware...")
  /\ handleFlashAt' = [pc |-> "download", i |-> 0]
  /\ UNCHANGED <<pageLeaves, everConnected, isDevelopmentMode, handle, monitor, hooks,
                 robustSerialService>>

\* handleFlash when the download settled: a rejected download ends in the
\* catch block; otherwise robustSerialService.flashFirmware runs to its first
\* await, or throws 'Device not connected', which the catch block shows.
FlashingProcess_flashFirmware ==
  /\ svc = "Serial"
  /\ handleFlashAt.pc = "download"
  /\ \/ /\ flashingState' = Update("error", P(0), FALSE, "Failed to download firmware")
        /\ handleFlashAt' = [pc |-> "idle", i |-> 0]
     \/ /\ robustSerialService.isDevelopmentMode
        /\ handleFlashAt' = [pc |-> "devStep", i |-> 1]
        /\ UNCHANGED flashingState
     \/ /\ ~ robustSerialService.isDevelopmentMode /\ ~ robustSerialService.port
        /\ flashingState' = Update("error", P(0), FALSE, "Device not connected")
        /\ handleFlashAt' = [pc |-> "idle", i |-> 0]
     \/ /\ ~ robustSerialService.isDevelopmentMode /\ robustSerialService.port
        /\ \E u \in {Robust_flashComplete, Update("error", P(0), FALSE, "Flash failed")} :
             flashingState' = u
        /\ handleFlashAt' = [pc |-> "idle", i |-> 0]
  /\ UNCHANGED <<pageLeaves, everConnected, isDevelopmentMode, handle, monitor, hooks,
                 robustSerialService>>

\* flashFirmwareDevelopmentMode under handleFlash: the delay before step i
\* ends; setFlashingState is the progress handler.
FlashingProcess_flashDevStep ==
  /\ svc = "Serial"
  /\ handleFlashAt.pc = "devStep"
  /\ LET i == handleFlashAt.i
     IN \/ /\ i < 5 /\ i # 3
           /\ flashingState' = Robust_devUpdate(i)
           /\ handleFlashAt' = [pc |-> "devStep", i |-> i + 1]
        \/ /\ i = 3
           /\ flashingState' = Robust_devUpdate(i)
           /\ handleFlashAt' = [pc |-> "devWrite", i |-> 30]
        \/ /\ i = 5                     \* last step, the final update, return
           /\ flashingState' = Robust_flashComplete
           /\ handleFlashAt' = [pc |-> "idle", i |-> 0]
  /\ UNCHANGED <<pageLeaves, everConnected, isDevelopmentMode, handle, monitor, hooks,
                 robustSerialService>>

\* One round of the simulated writing loop; handleFlashAt.i holds its i.
FlashingProcess_flashDevWrite ==
  /\ svc = "Serial"
  /\ handleFlashAt.pc = "devWrite"
  /\ flashingState' = Update("writing", P(handleFlashAt.i), TRUE, "Writing firmware: ")
  /\ handleFlashAt' = IF handleFlashAt.i + 10 < 85
                      THEN [pc |-> "devWrite", i |-> handleFlashAt.i + 10]
                      ELSE [pc |-> "devStep", i |-> 4]
  /\ UNCHANGED <<pageLeaves, everConnected, isDevelopmentMode, handle, monitor, hooks,
                 robustSerialService>>

\* The application is loaded, with or without Web Serial: both services are
\* fresh and Home is not yet rendered.
InitPage ==
  /\ svc = "Serial"
  /\ webSerial \in BOOLEAN
  /\ isDevelopmentMode = ~webSerial
  /\ port = FALSE /\ portOpen = FALSE /\ reader = FALSE /\ writer = FALSE
  /\ loader = FALSE
  /\ monitor = NoMonitor
  /\ restartTimers = 0 /\ restartPending = 0
  /\ firmwareLen = 0
  /\ everConnected = FALSE
  /\ sessions = <<>>
  /\ InitLogs
  /\ InitRx
  /\ InitInfo
  /\ deviceAcks = TRUE
  /\ hooks = [c \in Components |-> Unmounted]
  /\ robustSerialService = [port |-> FALSE, isDevelopmentMode |-> ~webSerial]
  /\ flashingState = IdleFlashingState
  /\ handleFlashAt = [pc |-> "idle", i |-> 0]

NextPage ==
  \/ Home_mount
  \/ Home_unmount
  \/ \E c \in Components : checkInitialConnection_resume(c)
  \/ DeviceConnection_connect
  \/ DeviceConnection_disconnect
  \/ FlashingProcess_handleFlash
  \/ FlashingProcess_flashFirmware
  \/ FlashingProcess_flashDevStep
  \/ FlashingProcess_flashDevWrite

SpecPage == InitPage /\ [][NextPage]_vars

\* ------------------- RobustSerialService flashing a device that may be mute
\* flashFirmware is called once.
Robust_flashOnce == sessions = <<>> /\ Robust_flashFirmware

\* A fresh RobustSerialService in a browser with Web Serial; the device on
\* the port answers the bootloader entry sequence, or it does not.
InitHandshake ==
  /\ svc = "Robust" /\ webSerial = TRUE /\ isDevelopmentMode = FALSE
  /\ port = FALSE /\ portOpen = FALSE /\ reader = FALSE /\ writer = FALSE
  /\ loader = FALSE
  /\ monitor = NoMonitor
  /\ restartTimers = 0 /\ restartPending = 0
  /\ firmwareLen \in FirmwareSizes
  /\ everConnected = FALSE
  /\ sessions = <<>>
  /\ InitLogs
  /\ InitRx
  /\ InitInfo
  /\ deviceAcks \in BOOLEAN
  /\ NoPage

NextHandshake ==
  \/ Robust_connect
  \/ Robust_disconnect
  \/ Robust_flashOnce
  \/ \E k \in DOMAIN sessions : Robust_flashResume(k)
  \/ \E k \in DOMAIN sessions : Robust_flashFinish(k)
  \/ RestartTimer

SpecHandshake == InitHandshake /\ [][NextHandshake]_vars

\* ------------------------------------------------------------- properties
Last(us) == us[Len(us)]

\* The progress values of the updates us never decrease.
NonDecreasing(us) ==
  \A j \in 1..(Len(us) - 1) : Leq(us[j].progress, us[j + 1].progress)

IsComplete100(u) == u.stage = "complete" /\ IsHundred(u.progress)

\* The byte ranges w start at 0 and each begins where the one before ended.
Contiguous(w) ==
  /\ w # <<>> => w[1][1] = 0
  /\ \A j \in 1..(Len(w) - 1) : w[j][2] = w[j + 1][1]

\* Each range of w is the non-empty [start, min(start + C, N)).
Clamped(w, C, N) ==
  \A j \in 1..Len(w) : w[j][1] < w[j][2] /\ w[j][2] = Min(w[j][1] + C, N)

\* The ranges w end at N (none at all for N = 0).
Covers(w, N) == IF N = 0 THEN w = <<>> ELSE w # <<>> /\ Last(w)[2] = N

\* The session has left its chunk loop normally.
LoopDone(s) == s.pc \in {"verify", "reset", "settle"} \/ s.result = "ok"

\* C1: while a flash or erase session of RobustSerialService or
\* SerialService is between its first progress update and its terminal
\* update, the monitor is not active: isMonitoring is false and no monitor
\* read is in flight.
MonitorIdleDuringSession ==
  (svc \in {"Robust", "Serial"} /\ AnyActive)
    => (~ monitor.isMonitoring /\ monitor.reads = 0)

\* A flash or erase session of RobustSerialService on the real transport is
\* between its first and its terminal update while a read of the monitor
\* loop is still in flight.
ReadInFlightDuringSession ==
  svc = "Robust" /\ ~ isDevelopmentMode /\ AnyActive /\ monitor.reads > 0

\* C2: within one flashFirmware or eraseFlash session the progress values of
\* the successive updates never decrease, whether the session succeeds or
\* fails.
ProgressNeverDecreases ==
  \A k \in DOMAIN sessions : NonDecreasing(sessions[k].updates)

\* A SerialService flash on the real transport has returned successfully
\* after a progress value lower than the one before it.
SuccessfulFlashWithDecrease ==
  \E k \in DOMAIN sessions :
    /\ svc = "Serial" /\ ~ sessions[k].dev /\ sessions[k].result = "ok"
    /\ sessions[k].op = "flash" /\ ~ NonDecreasing(sessions[k].updates)

SecondCallRejected ==
  \A k \in DOMAIN sessions :
    sessions[k].busyAtCall
      => /\ sessions[k].result = "failed"
         /\ sessions[k].updates = <<>>
         /\ sessions[k].steps = <<>>

\* A call made while another session was active has run to its final
\* update and returned successfully.
SecondCallRan ==
  \E k \in DOMAIN sessions :
    /\ sessions[k].busyAtCall /\ sessions[k].result = "ok"
    /\ sessions[k].updates # <<>> /\ IsComplete100(Last(sessions[k].updates))

\* The chunk size of the service's chunk loop.
ChunkSize ==
  CASE svc = "Robust" -> Robust_chunkSize
    [] svc = "Production" -> Production_chunkSize
    [] svc = "Serial" -> Serial_chunkSize
    [] svc = "ESPWebTools" -> ESPWebTools_chunkSize
    [] svc = "Official" -> Official_chunkSize
    [] svc = "ProductionESP" -> Production_chunkSize

\* C5: the chunk loops of ProductionSerialService.flashFirmware,
\* ESPWebToolsService.detailedWriteFirmware and
\* ESPWebToolsOfficialService.writeFirmwareToFlash issue writes whose byte
\* ranges [start, min(start + C, N)) start at 0 and are contiguous without
\* gap or overlap; once the loop is left they end at N, so that the lengths
\* sum to N.
ChunksPartitionImage ==
  \A k \in DOMAIN sessions :
    (svc \in {"Production", "ESPWebTools", "Official"}
       /\ sessions[k].op = "flash" /\ ~ sessions[k].dev)
      => /\ Contiguous(sessions[k].writes)
         /\ Clamped(sessions[k].writes, ChunkSize, firmwareLen)
         /\ LoopDone(sessions[k]) => Covers(sessions[k].writes, firmwareLen)

\* An ESPWebToolsService flash of an image of one chunk and one byte has left
\* its write loop after two writes, the second one short.
TwoChunkLoopDone ==
  \E k \in DOMAIN sessions :
    /\ svc = "ESPWebTools" /\ sessions[k].op = "flash"
    /\ firmwareLen = ESPWebTools_chunkSize + 1
    /\ LoopDone(sessions[k]) /\ Len(sessions[k].writes) = 2

\* C6: a flashFirmware session of ProductionSerialService or
\* ProductionESPService that has emitted stage complete with progress 100
\* has written every chunk of [0, N) and has finished its verifying stage.
CompleteOnlyAfterWriteAndVerify ==
  \A k \in DOMAIN sessions :
    (svc \in {"Production", "ProductionESP"} /\ sessions[k].op = "flash"
       /\ \E j \in 1..Len(sessions[k].updates) : IsComplete100(sessions[k].updates[j]))
      => /\ Contiguous(sessions[k].writes)
         /\ Covers(sessions[k].writes, firmwareLen)
         /\ sessions[k].verified
         /\ sessions[k].failedStep = 0

\* ProductionSerialService holds a selected port, has fallen back to
\* development mode, and a flash of a non-empty image has returned
\* successfully with stage complete, progress 100, and no chunk written.
SimulatedFlashReportedComplete ==
  \E k \in DOMAIN sessions :
    /\ svc = "Production" /\ port /\ sessions[k].dev /\ firmwareLen > 0
    /\ sessions[k].result = "ok" /\ IsComplete100(Last(sessions[k].updates))
    /\ sessions[k].writes = <<>>

\* C7: when a protocol step of flashFirmware fails, the session is over at
\* once: the failed step is the last step the session ever issued (no retry,
\* no later chunk write, verify or reset) and the call has rejected.
AbortOnStepFailure ==
  \A k \in DOMAIN sessions :
    (sessions[k].op = "flash" /\ sessions[k].failedStep > 0)
      => /\ sessions[k].failedStep = Len(sessions[k].steps)
         /\ sessions[k].result = "failed"
         /\ sessions[k].pc = "done"

\* A ProductionSerialService flash whose second chunk write was rejected
\* after the first chunk had been written.
SecondChunkWriteFailed ==
  \E k \in DOMAIN sessions :
    /\ svc = "Production" /\ sessions[k].op = "flash"
    /\ sessions[k].failedStep > 0
    /\ sessions[k].steps[sessions[k].failedStep].name = "write"
    /\ Len(sessions[k].writes) = 1

\* C8: every flashFirmware or eraseFlash call that fails, a call rejected
\* for want of a connected device included, has emitted as its last update
\* one of stage error with a non-empty message.
FailureEndsWithErrorUpdate ==
  \A k \in DOMAIN sessions :
    sessions[k].result = "failed"
      => /\ sessions[k].updates # <<>>
         /\ Last(sessions[k].updates).stage = "error"
         /\ Last(sessions[k].updates).message # ""

\* An ESPWebToolsService call was rejected as not connected without any
\* progress update.
RejectedWithoutUpdate ==
  \E k \in DOMAIN sessions :
    /\ svc = "ESPWebTools" /\ sessions[k].result = "failed"
    /\ sessions[k].updates = <<>>

\* C9: a session that failed with an error of message m has emitted a
\* terminal error update whose message is exactly m, and has rejected with
\* that same error.
ErrorMessageVerbatim ==
  \A k \in DOMAIN sessions :
    (sessions[k].result = "failed" /\ sessions[k].updates # <<>>
       /\ Last(sessions[k].updates).stage = "error")
      => Last(sessions[k].updates).message = sessions[k].thrown

\* A loader call of a ProductionSerialService flash was rejected with
\* message m and the terminal error update reads "Flash failed: Error: m".
StepErrorReportedWithPrefix ==
  \E k \in DOMAIN sessions :
    /\ svc = "Production" /\ sessions[k].failedStep > 0
    /\ Last(sessions[k].updates).stage = "error"
    /\ Last(sessions[k].updates).message = "Flash failed: Error: " \o sessions[k].thrown

\* The program itself will start the monitor, or has: isMonitoring is true,
\* or a restart timer or a restartMonitoring() delay is pending.
RestartUnderWay ==
  monitor.isMonitoring \/ restartTimers > 0 \/ restartPending > 0

\* Session k of RobustSerialService emits its terminal update in this step.
Robust_TerminalUpdateEmitted(k) ==
  /\ svc = "Robust"
  /\ sessions'[k].updates # <<>>
  /\ IsTerminal(Last(sessions'[k].updates))
  /\ (k \notin DOMAIN sessions \/ sessions[k].updates # sessions'[k].updates)

\* C10: when a flash or erase session of RobustSerialService emits its
\* terminal update, complete or error, the restart of the monitor is under
\* way without any further user action.
MonitorRestartedAfterSession ==
  [][\A k \in DOMAIN sessions' : Robust_TerminalUpdateEmitted(k) => RestartUnderWay']_vars

\* An eraseFlash of RobustSerialService on a connected device has returned
\* successfully, the monitor is off and nothing is pending that starts it.
EraseDoneMonitorOff ==
  \E k \in DOMAIN sessions :
    /\ svc = "Robust" /\ port /\ ~ sessions[k].dev /\ sessions[k].op = "erase"
    /\ sessions[k].result = "ok" /\ ~ RestartUnderWay

EraseWithoutConnectFails ==
  \A k \in DOMAIN sessions :
    (svc \in {"Robust", "Serial"}
       /\ sessions[k].op = "erase" /\ ~ sessions[k].connectedAtCall)
      => /\ sessions[k].result = "failed"
         /\ sessions[k].thrown \in {"Device not connected", "No device connected"}
         /\ sessions[k].steps = <<>>

\* An eraseFlash of RobustSerialService made after a connect() whose
\* port.open() rejected has entered the bootloader and erased the flash region.
EraseRanWithoutConnect ==
  \E k \in DOMAIN sessions :
    /\ svc = "Robust" /\ sessions[k].op = "erase" /\ ~ sessions[k].connectedAtCall
    /\ ~ sessions[k].dev
    /\ Len(sessions[k].steps) = 2 /\ sessions[k].result = "ok"

\* C13: once disconnect() has been called while a flashFirmware call of
\* RobustSerialService or ProductionSerialService was in stage writing, no
\* step lets that call complete a chunk write or emit an update of stage
\* writing, verifying or complete.
DisconnectCancelsWrite ==
  [][\A k \in DOMAIN sessions :
       (svc \in {"Robust", "Production"} /\ sessions[k].cut)
         => /\ sessions'[k].writes = sessions[k].writes
            /\ \A j \in (Len(sessions[k].updates) + 1)..Len(sessions'[k].updates) :
                 sessions'[k].updates[j].stage \notin {"writing", "verifying", "complete"}]_vars

\* A flashFirmware call of RobustSerialService on an open port went on after a
\* disconnect() in stage writing and returned successfully, the device
\* disconnected.
FlashCompletedAfterDisconnect ==
  \E k \in DOMAIN sessions :
    /\ svc = "Robust" /\ sessions[k].op = "flash" /\ ~ sessions[k].dev
    /\ sessions[k].cut /\ sessions[k].result = "ok"
    /\ Last(sessions[k].updates).stage = "complete"
    /\ ~ isConnected

\* The stages of a sequence of updates.
Stages(us) == [j \in 1..Len(us) |-> us[j].stage]

\* A sequence with every run of equal consecutive elements reduced to one.
RECURSIVE Collapse(_)
Collapse(seq) ==
  IF Len(seq) <= 1 THEN seq
  ELSE IF seq[1] = seq[2] THEN Collapse(Tail(seq))
  ELSE <<seq[1]>> \o Collapse(Tail(seq))

\* C14: for a non-empty image, a successful flashFirmware call of
\* RobustSerialService has emitted, consecutive repeats collapsed, the stages
\* connecting, erasing, writing, verifying, complete, in development mode as
\* on a real port.
DevStagesMatchRealStages ==
  \A k \in DOMAIN sessions :
    (svc = "Robust" /\ firmwareLen > 0
       /\ sessions[k].op = "flash" /\ sessions[k].result = "ok")
      => Collapse(Stages(sessions[k].updates))
           = <<"connecting", "erasing", "writing", "verifying", "complete">>

\* A development-mode flashFirmware call of RobustSerialService for a
\* non-empty image has returned successfully.
DevFlashDone ==
  \E k \in DOMAIN sessions :
    /\ svc = "Robust" /\ firmwareLen > 0
    /\ sessions[k].op = "flash" /\ sessions[k].dev /\ sessions[k].result = "ok"
    /\ Len(sessions[k].updates) > 5

\* C15: in a session of ProductionSerialService or RobustSerialService, every
\* update that follows an update of stage complete or error has that same
\* stage.
CompleteAndErrorAreTerminal ==
  \A k \in DOMAIN sessions :
    svc \in {"Production", "Robust"}
      => \A i, j \in 1..Len(sessions[k].updates) :
           (i < j /\ sessions[k].updates[i].stage \in {"complete", "error"})
             => sessions[k].updates[j].stage = sessions[k].updates[i].stage

\* A flashFirmware call of ProductionSerialService on a real port emitted
\* complete / 95, then loader.hardReset() rejected and the error update
\* followed.
ErrorAfterComplete ==
  \E k \in DOMAIN sessions :
    /\ svc = "Production" /\ sessions[k].op = "flash" /\ ~ sessions[k].dev
    /\ sessions[k].failedStep > 0
    /\ sessions[k].steps[sessions[k].failedStep].name = "reset"
    /\ Len(sessions[k].updates) >= 2
    /\ sessions[k].updates[Len(sessions[k].updates) - 1].stage = "complete"
    /\ Last(sessions[k].updates).stage = "error"

\* C16: every subscriber that registered a message handler and did not
\* unsubscribe has received, in order, every message logged since it
\* registered.
SubscribersReceiveEveryLog ==
  \A x \in registered :
    received[x] = [i \in 1..(logged - since[x]) |-> since[x] + i]

\* Terminal registered, SerialMonitor registered after it, and a message
\* logged after that reached SerialMonitor but not Terminal.
EarlierSubscriberCutOff ==
  /\ registered = {"Terminal", "SerialMonitor"}
  /\ logged > since["SerialMonitor"]
  /\ Len(received["SerialMonitor"]) = logged - since["SerialMonitor"]
  /\ Len(received["Terminal"]) < logged - since["Terminal"]

\* C17: a step in which stopSerialMonitoring() of SerialService or
\* ProductionSerialService turns the monitor off leaves no monitor read in
\* flight and no lock on the port's readable stream.
StopReleasesStream ==
  [][(svc \in {"Serial", "Production"}
        /\ monitor.isMonitoring /\ ~ monitor'.isMonitoring)
       => (monitor'.reads = 0 /\ ~ monitor'.locked)]_vars

\* SerialService's monitor was stopped on an open port and the read its loop
\* was waiting in is still in flight.
StoppedWithReadInFlight ==
  /\ svc = "Serial" /\ port /\ portOpen /\ reader
  /\ ~ monitor.isMonitoring /\ monitor.ctrl = "none" /\ monitor.reads > 0

\* The error keywords and the warning keywords of the read loop.
HasErrorKeyword(line) == Includes(line, ERROR) \/ Includes(line, FAIL)
HasWarningKeyword(line) == Includes(line, WARNING) \/ Includes(line, WARN)
HasSuccessKeyword(line) ==
  Includes(line, SUCCESS) \/ Includes(line, OK) \/ Includes(line, READY)

\* C18: of the messages SerialService's monitor has logged, one whose line
\* contains "ERROR" has type error, one whose line contains none of the
\* keywords has type info, and one whose line contains both an error keyword
\* and a warning keyword has type error.
SeverityByKeyword ==
  \A n \in 1..Len(deviceLog) :
    LET m == deviceLog[n]
    IN /\ Includes(m.line, ERROR) => m.type = "error"
       /\ (~ HasErrorKeyword(m.line) /\ ~ HasWarningKeyword(m.line)
             /\ ~ HasSuccessKeyword(m.line)) => m.type = "info"
       /\ (HasErrorKeyword(m.line) /\ HasWarningKeyword(m.line)) => m.type = "error"

\* The monitor has logged a line in which a warning keyword comes before an
\* error keyword.
WarningAndErrorLineLogged ==
  \E n \in 1..Len(deviceLog) :
    /\ deviceLog[n].line = WARNING \o ERROR
    /\ deviceLog[n].type = "error"

\* C19: when SerialService's monitor has read a byte stream in two chunks, the
\* text it has decoded is the text that decoding the undivided stream gives.
SplitDecodesLikeWhole ==
  (incoming = <<>> /\ chunksRead # <<>>)
    => decoded = Utf8_bytes(Utf8Fresh, Flatten(chunksRead)).out

\* The monitor has read two chunks, the first ending with the lead byte of a
\* two-byte character and the second beginning with its continuation byte, and
\* has decoded U+00E9.
SplitInsideCharacter ==
  /\ Len(chunksRead) = 2 /\ incoming = <<>>
  /\ chunksRead[1][Len(chunksRead[1])] = 195
  /\ chunksRead[2][1] = 169
  /\ \E i \in 1..Len(decoded) : decoded[i] = 233

\* C20: a flashFirmware call of ProductionSerialService on a real port that
\* returned successfully for the 256,000-byte image has completed exactly 63
\* chunk writes, none longer than 4096 bytes, and its last update is
\* complete / 100.
ImageWrittenIn63Chunks ==
  \A k \in DOMAIN sessions :
    (svc = "Production" /\ firmwareLen = 256000 /\ sessions[k].op = "flash"
       /\ ~ sessions[k].dev /\ sessions[k].result = "ok")
      => /\ Len(sessions[k].writes) = 63
         /\ \A n \in 1..Len(sessions[k].writes) :
              sessions[k].writes[n][2] - sessions[k].writes[n][1] <= 4096
         /\ IsComplete100(Last(sessions[k].updates))

\* The flash of the 256,000-byte image has returned successfully, its last
\* chunk write ending at byte 256,000.
LargeImageFlashed ==
  \E k \in DOMAIN sessions :
    /\ svc = "Production" /\ firmwareLen = 256000 /\ ~ sessions[k].dev
    /\ sessions[k].op = "flash" /\ sessions[k].result = "ok"
    /\ sessions[k].writes # <<>>
    /\ Last(sessions[k].writes)[2] = 256000

\* C21: no step of SerialService or ProductionSerialService changes whether
\* the service uses the simulated transport (mockConnected, isDevelopmentMode).
TransportChosenOnce ==
  [][(svc \in {"Serial", "Production"})
       => (isDevelopmentMode' = isDevelopmentMode)]_vars

\* A ProductionSerialService constructed with Web Serial available, hence on
\* the real transport, is in development mode with a port selected.
SwitchedToSimulated ==
  svc = "Production" /\ webSerial /\ port /\ isDevelopmentMode

\* C22: a step that is a disconnect() of RobustSerialService or SerialService
\* ends in a state where isConnected() is false.
DisconnectClosesHandle ==
  [][(Robust_disconnect \/ Serial_disconnect) => ~ isConnected']_vars

\* A RobustSerialService in development mode was connected and then
\* disconnected (the monitor that connect() started is off, with no session
\* and no restart that could have stopped it) and isConnected() is true.
ConnectedAfterDisconnect ==
  /\ svc = "Robust" /\ isDevelopmentMode /\ everConnected
  /\ sessions = <<>> /\ restartPending = 0 /\ ~ monitor.isMonitoring
  /\ isConnected

\* C23: while a connection lasts, every query of the device info yields the
\* DeviceInfo that connect() returned.
DeviceInfoFixedByConnect ==
  deviceInfo # NoDevice => \A i \in DOMAIN queried : queried[i] = deviceInfo

\* connect() has returned a DeviceInfo, the service is connected, and a later
\* query yielded the same chip type and flash size with another MAC address.
LaterQueryOtherAddress ==
  /\ deviceInfo # NoDevice /\ isConnected
  /\ \E i \in DOMAIN queried :
       /\ queried[i].chipType = deviceInfo.chipType
       /\ queried[i].flashSize = deviceInfo.flashSize
       /\ queried[i].macAddress # deviceInfo.macAddress

\* C24: a flashFirmware session on a real port goes on to the erase step only
\* when the device acknowledged the entry into its bootloader; otherwise the
\* session has failed.
EraseOnlyAfterAcknowledgement ==
  \A k \in DOMAIN sessions :
    (sessions[k].op = "flash" /\ ~ sessions[k].dev /\ ~ deviceAcks)
      => /\ \A j \in DOMAIN sessions[k].steps : sessions[k].steps[j].name # "erase"
         /\ sessions[k].result # "ok"

\* A RobustSerialService flashFirmware on a device that never acknowledged has
\* issued the erase step after one enterBootloaderMode, and returned
\* successfully with a last update complete at 100.
FlashedWithoutAcknowledgement ==
  \E k \in DOMAIN sessions :
    LET s == sessions[k]
    IN /\ svc = "Robust" /\ s.op = "flash" /\ ~ s.dev /\ ~ deviceAcks
       /\ Len(s.steps) >= 2
       /\ s.steps[1].name = "enterBootloader" /\ s.steps[2].name = "erase"
       /\ s.result = "ok"
       /\ IsComplete100(Last(s.updates))

\* The image bytes written so far by a session in its chunk loop:
\* RobustSerialService is at the head of iteration s.i, ProductionSerialService
\* has completed the writes s.writes.
WrittenBytes(s) ==
  IF svc = "Robust" THEN Min(s.i * Robust_chunkSize, firmwareLen)
  ELSE IF s.writes = <<>> THEN 0 ELSE Last(s.writes)[2]

\* floor(written / total * 100), clamped to [0, 100].
PercentWritten(written, total) == Min(100, (written * 100) \div total)

\* C25: while a flashFirmware of RobustSerialService or ProductionSerialService
\* on a real port is in its chunk loop, the progress of its last update is
\* floor(writtenBytes / totalBytes * 100).
WritingProgressIsPercentWritten ==
  \A k \in DOMAIN sessions :
    LET s == sessions[k]
    IN (svc \in {"Robust", "Production"} /\ s.op = "flash" /\ ~ s.dev
        /\ s.pc = "write" /\ s.result = "running")
         => /\ Last(s.updates).stage = "writing"
            /\ Last(s.updates).progress = P(PercentWritten(WrittenBytes(s), firmwareLen))

\* ProductionSerialService has written the first 4096 bytes of an image of
\* 4097, which is 99 percent, and the update that followed reports 30.
ReportedThirtyAtNinetyNine ==
  \E k \in DOMAIN sessions :
    LET s == sessions[k]
    IN /\ svc = "Production" /\ s.op = "flash" /\ ~ s.dev /\ s.pc = "write"
       /\ firmwareLen = Production_chunkSize + 1
       /\ s.writes = << <<0, Production_chunkSize>> >>
       /\ PercentWritten(WrittenBytes(s), firmwareLen) = 99
       /\ Last(s.updates).stage = "writing"
       /\ Last(s.updates).progress = P(30)

\* C26: every progress update of every flashFirmware and eraseFlash session,
\* whatever the firmware length, carries a progress between 0 and 100.
ProgressWithinBounds ==
  \A k \in DOMAIN sessions :
    \A j \in DOMAIN sessions[k].updates :
      LET p == sessions[k].updates[j].progress
      IN p[2] > 0 /\ Leq(P(0), p) /\ Leq(p, P(100))

\* A flashFirmware of ESPWebToolsService with an image of one chunk and one
\* byte has returned: its writing updates carried 30 + (4096 / 4097) * 60,
\* which is no integer, and 30 + 60.
UnroundedProgressReported ==
  \E k \in DOMAIN sessions :
    LET s == sessions[k]
    IN /\ svc = "ESPWebTools" /\ s.op = "flash" /\ s.result = "ok"
       /\ firmwareLen = ESPWebTools_chunkSize + 1
       /\ \E j \in DOMAIN s.updates :
            /\ s.updates[j].stage = "writing"
            /\ s.updates[j].progress =
                 Scaled(30, ESPWebTools_chunkSize, firmwareLen, 60)
       /\ \E j \in DOMAIN s.updates :
            s.updates[j].stage = "writing" /\ Leq(P(90), s.updates[j].progress)

\* C27: in a successful flashFirmware of ESPWebToolsOfficialService no update
\* with stage complete or isFlashing false precedes a writing update, and no
\* connecting update follows an erasing update.
OfficialFlashStagesInOrder ==
  \A k \in DOMAIN sessions :
    LET s == sessions[k]
    IN (svc = "Official" /\ s.op = "flash" /\ s.result = "ok")
         => \A i, j \in DOMAIN s.updates :
              i < j =>
                /\ (s.updates[i].stage = "complete" \/ ~ s.updates[i].isFlashing)
                     => s.updates[j].stage # "writing"
                /\ s.updates[i].stage = "erasing" => s.updates[j].stage # "connecting"

\* A flashFirmware of ESPWebToolsOfficialService has returned successfully;
\* after its erasing update at 15 came a connecting update at 0, and before
\* its first writing update came a complete update at 100 with isFlashing
\* false.
OfficialFlashCompletedTwice ==
  \E k \in DOMAIN sessions :
    LET s == sessions[k]
    IN /\ svc = "Official" /\ s.op = "flash" /\ s.result = "ok"
       /\ \E i \in DOMAIN s.updates :
            /\ i + 1 \in DOMAIN s.updates
            /\ s.updates[i].stage = "erasing" /\ s.updates[i].progress = P(15)
            /\ s.updates[i + 1].stage = "connecting" /\ s.updates[i + 1].progress = P(0)
       /\ \E i \in DOMAIN s.updates :
            /\ i + 1 \in DOMAIN s.updates
            /\ IsComplete100(s.updates[i]) /\ ~ s.updates[i].isFlashing
            /\ s.updates[i + 1].stage = "writing"

\* C28: in a development-mode flashFirmware of ProductionSerialService no
\* update with stage writing follows an update with stage verifying or
\* complete.
DevWritingBeforeVerifying ==
  \A k \in DOMAIN sessions :
    LET s == sessions[k]
    IN (svc = "Production" /\ s.op = "flash" /\ s.dev)
         => \A i, j \in DOMAIN s.updates :
              (i < j /\ s.updates[i].stage \in {"verifying", "complete"})
                => s.updates[j].stage # "writing"

\* A development-mode flashFirmware of ProductionSerialService has emitted
\* the five updates of its steps table, and its update complete at 95 was
\* followed by a writing update at 30.
DevWritingAfterComplete ==
  \E k \in DOMAIN sessions :
    LET s == sessions[k]
    IN /\ svc = "Production" /\ s.op = "flash" /\ s.dev
       /\ Len(s.updates) > 5 /\ s.updates[4].stage = "verifying"
       /\ \E i \in DOMAIN s.updates :
            /\ i + 1 \in DOMAIN s.updates
            /\ s.updates[i].stage = "complete" /\ s.updates[i].progress = P(95)
            /\ s.updates[i + 1].stage = "writing" /\ s.updates[i + 1].progress = P(30)

\* C29: a flashFirmware of SerialService on the mock connection that has
\* returned successfully has a last update with stage complete, progress 100
\* and isFlashing false.
MockFlashEndsComplete100 ==
  \A k \in DOMAIN sessions :
    LET s == sessions[k]
    IN (svc = "Serial" /\ s.op = "flash" /\ s.dev /\ s.result = "ok")
         => /\ s.updates # <<>>
            /\ IsComplete100(Last(s.updates))
            /\ ~ Last(s.updates).isFlashing

\* simulateDetailedFlashing has returned, and the last update it emitted is
\* complete at 95 with isFlashing true.
MockFlashLeftAtNinetyFive ==
  \E k \in DOMAIN sessions :
    LET s == sessions[k]
    IN /\ svc = "Serial" /\ s.op = "flash" /\ s.dev /\ s.result = "ok"
       /\ s.updates # <<>>
       /\ Last(s.updates).stage = "complete"
       /\ Last(s.updates).progress = P(95)
       /\ Last(s.updates).isFlashing

\* The positions of the line feeds in text.
LineEnds(text) == {i \in 1..Len(text) : text[i] = LineFeed}

\* The newline-terminated lines of text, in order, without their line feeds.
TerminatedLines(text) ==
  LET ends == LineEnds(text)
      pos(n) == CHOOSE i \in ends : Cardinality({j \in ends : j <= i}) = n
      start(n) == IF n = 1 THEN 1 ELSE pos(n - 1) + 1
  IN [n \in 1..Cardinality(ends) |-> SubSeq(text, start(n), pos(n) - 1)]

IsNonBlank(line) == \E i \in 1..Len(line) : line[i] \notin WhiteSpace

\* C30: whatever reads the bytes arrived in, SerialService's monitor has
\* logged one message for each non-blank newline-terminated line of the text
\* received so far, in order and whole, and none for the text after the last
\* line feed.
OneLogEventPerLine ==
  LET text == Utf8_bytes(Utf8Fresh, Flatten(chunksRead)).out
      expected == SelectSeq(TerminatedLines(text), IsNonBlank)
  IN /\ Len(deviceLog) = Len(expected)
     /\ \A i \in 1..Len(deviceLog) :
          /\ deviceLog[i].line = Trim(expected[i])
          /\ deviceLog[i].message = DevicePrefix \o Trim(expected[i])

\* The device sent ERROR, a line feed and OK; the first read ended after ERR.
\* The monitor has logged the line ERROR once, and OK waits in the buffer.
LineAcrossTwoReadsLoggedOnce ==
  /\ Len(chunksRead) = 2 /\ incoming = <<>>
  /\ chunksRead[1] = <<69, 82, 82>>
  /\ Len(deviceLog) = 1
  /\ deviceLog[1].line = ERROR
  /\ buffer = OK

\* C31: when RobustSerialService's monitor has read a byte stream in its
\* chunks, the text it has decoded is the text that decoding the undivided
\* stream gives.
Robust_SplitDecodesLikeWhole ==
  (svc = "Robust" /\ incoming = <<>> /\ chunksRead # <<>>)
    => decoded = TextDecoder_decode(Utf8Fresh, Flatten(chunksRead)).out

\* RobustSerialService's monitor has read two chunks, the first ending with the
\* lead byte of U+00E9 and the second beginning with its continuation byte:
\* the text decoded holds U+FFFD and no U+00E9.
Robust_CharacterLostAtBoundary ==
  /\ svc = "Robust"
  /\ Len(chunksRead) = 2 /\ incoming = <<>>
  /\ chunksRead[1][Len(chunksRead[1])] = 195
  /\ chunksRead[2][1] = 169
  /\ \E i \in 1..Len(decoded) : decoded[i] = Replacement
  /\ \A i \in 1..Len(decoded) : decoded[i] # 233

\* C32: a connect() of ESPWebToolsService, ESPWebToolsOfficialService or
\* RobustSerialService on a real port that ends without an open port (port
\* selection or port.open rejected) leaves isConnected() false.
FailedConnectLeavesDisconnected ==
  [][((Robust_connect \/ WebTools_connect) /\ ~ isDevelopmentMode /\ ~ portOpen')
       => ~ isConnected']_vars

\* No connect() of this RobustSerialService has ever succeeded and its port
\* is not open, yet isConnected() is true and a flashFirmware called in this
\* state was not rejected: it went on to enter the bootloader.
FlashAcceptedAfterFailedConnect ==
  /\ svc = "Robust" /\ ~ isDevelopmentMode
  /\ ~ everConnected /\ ~ portOpen
  /\ isConnected
  /\ \E k \in DOMAIN sessions :
       /\ sessions[k].op = "flash"
       /\ sessions[k].steps # <<>>
       /\ sessions[k].steps[1].name = "enterBootloader"

\* C33: SerialService, RobustSerialService and ProductionSerialService have at
\* most one read of a monitor loop awaiting the reader.
AtMostOneReadLoop ==
  (svc \in {"Serial", "Robust", "Production"}) => monitor.reads <= 1

\* SerialService is monitoring with two read loops awaiting reader.read(), and
\* the loop condition holds for both: the loop that was stopped goes on when
\* its read resolves.
TwoReadLoopsLive ==
  /\ svc = "Serial" /\ ~ isDevelopmentMode
  /\ monitor.isMonitoring /\ LoopContinues(monitor)
  /\ monitor.reads = 2

\* C34: while isMonitoring is true on a real connection of SerialService or
\* ProductionESPService, a read loop is awaiting the reader.
MonitoringHasReadLoop ==
  (svc \in {"Serial", "ProductionESP"} /\ ~ isDevelopmentMode /\ monitor.isMonitoring)
    => monitor.reads > 0

\* SerialService is connected with its port open and its reader held, and
\* isMonitoring is true, but no read loop exists: monitoring was switched on
\* while there was no port, and the connect() that followed started nothing.
MonitoringWithoutReadLoop ==
  /\ svc = "Serial" /\ ~ isDevelopmentMode
  /\ port /\ portOpen /\ reader
  /\ monitor.isMonitoring
  /\ monitor.reads = 0

\* C35: while SerialService's isMonitoring is false, no step logs a line read
\* from the device.
NoDeviceOutputWhileStopped ==
  [][(svc = "Serial" /\ ~ monitor.isMonitoring) => (deviceLog' = deviceLog)]_vars

\* SerialService's monitoring is stopped and not yet started again, the read
\* that was pending at the stop has resolved, and its line was logged.
LineLoggedAfterStop ==
  /\ svc = "Serial"
  /\ ~ monitor.isMonitoring /\ restartPending = 1
  /\ monitor.reads = 0
  /\ chunksRead # <<>>
  /\ deviceLog # <<>>

\* C36: when the monitor-restart timer of an earlier flashFirmware fires on a
\* RobustSerialService or ProductionSerialService that has been disconnected
\* (real transport, no port), isMonitoring is false afterwards.
RestartTimerSparesDisconnected ==
  [][(RestartTimer /\ svc \in {"Robust", "Production"} /\ ~ isDevelopmentMode
        /\ everConnected /\ ~ port)
       => ~ monitor'.isMonitoring]_vars

\* RobustSerialService flashed successfully, was disconnected, had its restart
\* timer fire, and was connected again: it holds an open port and a reader,
\* isMonitoring is true, and no read loop is running.
MonitorSuppressedAfterReconnect ==
  /\ svc = "Robust" /\ ~ isDevelopmentMode
  /\ port /\ portOpen /\ reader
  /\ restartTimers = 0 /\ restartPending = 0
  /\ \E k \in DOMAIN sessions : sessions[k].op = "flash" /\ sessions[k].result = "ok"
  /\ monitor.isMonitoring
  /\ monitor.reads = 0

\* ------------------------------------------------------------------- C37
\* The flashFirmware calls of RobustSerialService.
Robust_flashSessions ==
  {k \in DOMAIN sessions : svc = "Robust" /\ sessions[k].op = "flash"}

HomeFollowsDeviceConnection ==
  [][/\ (DeviceConnection_connect /\ hooks'["DeviceConnection"].isConnected)
          => hooks'["Home"].isConnected
     /\ DeviceConnection_disconnect => ~ hooks'["Home"].isConnected]_vars

\* DeviceConnection's connect() succeeded and serialService is connected,
\* Home is mounted with no check of its own in flight, and Home's
\* isConnected is false.
HomeDisconnectedAfterConnect ==
  /\ svc = "Serial" /\ isConnected
  /\ hooks["DeviceConnection"].isConnected
  /\ hooks["Home"].mounted /\ ~ hooks["Home"].checking
  /\ ~ hooks["Home"].isConnected

\* ------------------------------------------------------------------- C39
\* isConnected() of the robustSerialService instance.
robustSerialService_isConnected ==
  robustSerialService.port \/ robustSerialService.isDevelopmentMode

\* C39: whenever the Flash Firmware button is enabled because Home's hook
\* reports isConnected true, the instance FlashingProcess flashes through,
\* robustSerialService, is connected (its isConnected() is true), and no
\* handleFlash ends rejected with 'Device not connected'.
FlashButtonMeansServiceConnected ==
  /\ (svc = "Serial" /\ canFlash) => robustSerialService_isConnected
  /\ flashingState.message # "Device not connected"

\* The Flash Firmware button was enabled and pressed while serialService is
\* connected through a real port, and handleFlash ended with the error
\* 'Device not connected' of robustSerialService, which holds no port.
FlashRejectedWhileHookConnected ==
  /\ svc = "Serial" /\ port /\ portOpen
  /\ hooks["Home"].mounted /\ hooks["Home"].isConnected
  /\ ~ robustSerialService.port
  /\ flashingState.stage = "error"
  /\ flashingState.message = "Device not connected"
====
